---- MODULE Spec2Model ----
(***************************************************************************)
(* SkillSwap client: the match-request coordinator and the unread badge of *)
(* the Dashboard page (src/src/pages/Inbox.tsx, lines 408-990) and the     *)
(* chat session of the Inbox page (src/unnamed/part_001), over a backend   *)
(* that stores requests, matches, friends and messages and streams insert  *)
(* events.                                                                 *)
(*                                                                         *)
(* Every await of the source is a suspension point: the call is issued by  *)
(* one action, executed by the backend in a second one, and its            *)
(* continuation runs in a third.  A React effect closes over the state of  *)
(* the render that scheduled it; a handler's state updates, the re-render  *)
(* and the effect cleanup/re-run they cause are one atomic step.           *)
(***************************************************************************)
EXTENDS Integers, Sequences, FiniteSets, TLC

\* ------------------------------------------------------------------ bounds
MaxRequests == 2      \* match requests submitted in one Dashboard session
MaxTicks == 3         \* poll ticks started by one poll effect
MaxInFlight == 2      \* existence queries of the poll path awaited at once
MaxInvalid == 1       \* submissions attempted without a selected skill
MaxMsgs == 2          \* message rows the backend stores, and sends attempted
MaxRemote == 1        \* messages the other participant sends to an open Inbox
MaxTime == 1          \* last value of the clock
MaxLoads == 2         \* loadMessagesAndFriend calls started
MaxBlocks == 1        \* handleDeleteAndBlock calls started

\* ------------------------------------------------------- program constants
MATCH_TIMEOUT == 5000
POLL_INTERVAL == 2000

\* Math.ceil(MATCH_TIMEOUT / POLL_INTERVAL)
maxChecks == (MATCH_TIMEOUT + POLL_INTERVAL - 1) \div POLL_INTERVAL

\* Date.now() at the first send: an epoch in milliseconds, far above any
\* serial id of the messages table
TempIdBase == 100

Null == 0
ReqIds == 1..MaxRequests
MyConvs == {1, 2}     \* match ids whose friends row links the current user
ForeignConvs == {3}   \* match ids whose friends row links two other users
Convs == MyConvs \cup ForeignConvs
Senders == {"me", "other"}
TickSt == {"sent", "exists", "gone", "err"}
Titles == {"MatchFound", "ExistingConnection", "NoUsersOnline"}
ErrKinds == {"Validation", "Submission", "Send", "Block"}

VARIABLES
  \* --- Dashboard: match-request coordinator
  user,             \* Dashboard user state is loaded
  isMatching,       \* search-in-progress flag
  matchFound,       \* Null, or the id of the Match of the outcome payload
  currentRequestId, \* Null, or the retained request id
  reqSeq,           \* requests submitted so far (the next insert gets id reqSeq+1)
  insSt,            \* per request: the insert call of handleRequestMatch
  intervalReq,      \* Null, or the request whose poll interval is running
  matchCheckCount,  \* per poll effect (one per request): its tick counter
  closureMatchFound,\* per poll effect: the matchFound its closure captured
  ticks,            \* per poll effect and query state: pollForMatch invocations
                    \* suspended at the existence query
  lookups,          \* matches handler invocations suspended at the name lookup
  toasts,           \* per request and title: terminal notifications emitted
  selectedSkill,    \* a skill of the skills list is selected
  errorToasts,      \* per kind: destructive "Error" notifications emitted
  pollCalls,        \* matches-table variant of the Dashboard: pollForMatch
                    \* invocations, each suspended at an await
  \* --- Dashboard: unread badge
  unreadTotal,      \* the badge counter
  unreadFetch,      \* fetchUnreadTotal: [st, count]
  globalEvents,     \* per sender: message INSERT events on their way to the
                    \* messages-global channel
  \* --- Inbox: chat session
  currentUser,      \* Inbox currentUser state is loaded
  friendsSt,        \* loadFriends: "idle", "sent", "done"
  friends,          \* match ids of the friends list
  unread,           \* per match id: the unread value of its friends entry
  selectedFriend,   \* Null, or the match id of the selected friend
  messages,         \* the visible message list
  messageInput,     \* "" or a text of Inputs
  isSending,
  isLoadingMessages,
  activeMatchRef,   \* Null, or the match id of the load started last
  loads,            \* loadMessagesAndFriend invocations, each suspended at an await
  chan,             \* Null, or the match id of the channel the last run of the
                    \* channel effect subscribed (held by its cleanup)
  channels,         \* match ids of the messages channels the client is subscribed to
  chatEvents,       \* ids of inserted rows on their way to that channel, in order
  chatMarks,        \* channel handler invocations suspended at the is_read update
  sends,            \* handleSendMessage invocations suspended at the insert
  sendSeq,          \* sends attempted so far
  loadSeq,          \* loadMessagesAndFriend calls started so far
  lateEvents,       \* [conv, id]: rows on their way to a channel that has been
                    \* removed; the removal is not awaited
  blocks,           \* handleDeleteAndBlock invocations, each suspended at an await
  blockedToasts,    \* per match id: "Blocked" notifications emitted
  \* --- router
  route,            \* the page that is mounted: "dashboard", "inbox", "denied"
  matchId,          \* Null, or the :matchId parameter of the Inbox route
  \* --- backend
  dbRequests,       \* request rows that exist
  matchEvents,      \* Match INSERT events on their way to the matches channel
  dbMessages,       \* message rows in insert order; a row's id is its index
  dbFriends,        \* match ids of the friends rows that link the current user
  dbBlocked,        \* match ids whose two participants have blocked_users rows
  dbMatches,        \* match ids of the match rows that exist
  now               \* the clock that stamps sent_at

matchVars == <<user, isMatching, matchFound, currentRequestId, reqSeq, insSt,
               intervalReq, matchCheckCount, closureMatchFound, ticks, lookups, toasts,
               dbRequests, matchEvents>>

unreadVars == <<unreadTotal, unreadFetch, globalEvents>>

chatVars == <<currentUser, friendsSt, friends, unread, selectedFriend, messages,
              messageInput, isSending, isLoadingMessages, activeMatchRef, loads,
              chan, channels, chatEvents, chatMarks, sends, sendSeq, loadSeq, matchId>>

dbVars == <<dbMessages, dbFriends, now>>

blockVars == <<blocks, blockedToasts, dbBlocked, dbMatches>>

vars == <<matchVars, unreadVars, chatVars, route, dbVars, selectedSkill, pollCalls, errorToasts,
          lateEvents, blockVars>>

\* ---------------------------------------------------------------- backend
\* count of rows with sender_id != current user and is_read = false
UnreadInDb ==
  Cardinality({i \in 1..Len(dbMessages) :
                 dbMessages[i].sender # "me" /\ ~dbMessages[i].isRead})

\* insert into messages: the id is the next serial, sent_at the backend's clock.
\* key is 0 for a row of the other participant, else the number of the send.
InsertRow(db, c, s, read, k) ==
  Append(db, [conv |-> c, sender |-> s, sentAt |-> now, isRead |-> read, key |-> k])

\* A bulk update that writes is_read = false on the rows already read.
BulkMarkUnread(db, c) ==
  [i \in 1..Len(db) |->
     IF db[i].conv = c /\ db[i].sender # "me" /\ db[i].isRead
     THEN [db[i] EXCEPT !.isRead = FALSE] ELSE db[i]]

\* The bulk update without its match_id condition.
BulkMarkReadEveryMatch(db, c) ==
  [i \in 1..Len(db) |->
     IF db[i].sender # "me" /\ ~db[i].isRead
     THEN [db[i] EXCEPT !.isRead = TRUE] ELSE db[i]]

\* update messages set is_read = true
\*   where match_id = c and sender_id != current user and is_read = false
BulkMarkRead(db, c) ==
  [i \in 1..Len(db) |->
     IF db[i].conv = c /\ db[i].sender # "me" /\ ~db[i].isRead
     THEN [db[i] EXCEPT !.isRead = TRUE] ELSE db[i]]

\* ---------------------------------------------------------------- helpers
NoToasts == [r \in ReqIds |-> [t \in Titles |-> 0]]

Toast(ts, r, title) == [ts EXCEPT ![r][title] = @ + 1]

ToastCount(r) ==
  toasts[r]["MatchFound"] + toasts[r]["ExistingConnection"] + toasts[r]["NoUsersOnline"]

\* The guard without its test of the search flag.
PollGuardNoFlag(im, u, rid) == u /\ rid # Null

\* The poll effect's guard: isMatching && user && currentRequestId !== null
PollGuard(im, u, rid) == im /\ u /\ rid # Null

\* The poll effect, run after a render in which one of its dependencies
\* [isMatching, user, currentRequestId, matchFound] changed: the cleanup of
\* the previous run clears its interval; a run that passes the guard starts a
\* fresh counter, calls pollForMatch at once (tick 1) and sets the interval.
\* The new closure captures currentRequestId and matchFound of that render.
PollEffect(im, u, rid, mf) ==
  IF <<im, u, rid, mf>> = <<isMatching, user, currentRequestId, matchFound>>
  THEN /\ UNCHANGED <<intervalReq, matchCheckCount, closureMatchFound, ticks>>
  ELSE IF PollGuard(im, u, rid)
       THEN /\ intervalReq' = rid
            /\ matchCheckCount' = [matchCheckCount EXCEPT ![rid] = 1]
            /\ closureMatchFound' = [closureMatchFound EXCEPT ![rid] = mf]
            /\ ticks' = [ticks EXCEPT ![rid]["sent"] = @ + 1]
       ELSE /\ intervalReq' = Null
            /\ UNCHANGED <<matchCheckCount, closureMatchFound, ticks>>

\* ------------------------------------------------------------------- Init
\* The state of a Dashboard page at its mount (its useState initial values),
\* with no call of it suspended.
DashboardState ==
  /\ user = FALSE
  /\ isMatching = FALSE
  /\ matchFound = Null
  /\ currentRequestId = Null
  /\ reqSeq = 0
  /\ insSt = [r \in ReqIds |-> "idle"]
  /\ intervalReq = Null
  /\ matchCheckCount = [r \in ReqIds |-> 0]
  /\ closureMatchFound = [r \in ReqIds |-> Null]
  /\ ticks = [r \in ReqIds |-> [s \in TickSt |-> 0]]
  /\ lookups = {}
  /\ toasts = NoToasts
  /\ unreadTotal = 0
  /\ unreadFetch = [st |-> "idle", count |-> 0]
  /\ globalEvents = [s \in Senders |-> 0]
  /\ selectedSkill = FALSE
  /\ pollCalls = {}
  /\ errorToasts = [k \in ErrKinds |-> 0]
  /\ lateEvents = {}
  /\ blocks = {}
  /\ blockedToasts = [c \in Convs |-> 0]

\* The state of an Inbox page at its mount (its useState initial values).
InboxState(cu, fs, fr, un, sel, msgs, inp, snd, ld, ref) ==
  /\ cu = FALSE
  /\ fs = "idle"
  /\ fr = {}
  /\ un = [c \in Convs |-> 0]
  /\ sel = Null
  /\ msgs = <<>>
  /\ inp = ""
  /\ snd = FALSE
  /\ ld = FALSE
  /\ ref = Null

\* No call of an Inbox page is suspended and no channel of it is subscribed.
InboxIdle(ls, ch, evs, mks, sds) ==
  /\ ls = {}
  /\ ch = Null
  /\ evs = <<>>
  /\ mks = {}
  /\ sds = {}

\* The router mounts an Inbox page on /inbox.
InboxInitial ==
  /\ InboxState(currentUser', friendsSt', friends', unread', selectedFriend',
                messages', messageInput', isSending', isLoadingMessages',
                activeMatchRef')
  /\ InboxIdle(loads', chan', chatEvents', chatMarks', sends')
  /\ lateEvents' = {}
  /\ blocks' = {}
  /\ matchId' = Null
  /\ UNCHANGED <<sendSeq, loadSeq, channels>>

\* The backend at the start: no request, no message, the user's friends rows.
InitBackend ==
  /\ dbRequests = {}
  /\ matchEvents = {}
  /\ dbMessages = <<>>
  /\ dbFriends = MyConvs
  /\ dbBlocked = {}
  /\ dbMatches = Convs
  /\ now = 0

\* The Dashboard page has just been mounted.
InitDashboard ==
  /\ route = "dashboard"
  /\ InitBackend
  /\ InboxState(currentUser, friendsSt, friends, unread, selectedFriend, messages,
                messageInput, isSending, isLoadingMessages, activeMatchRef)
  /\ InboxIdle(loads, chan, chatEvents, chatMarks, sends)
  /\ channels = {}
  /\ sendSeq = 0
  /\ loadSeq = 0
  /\ matchId = Null
  /\ DashboardState

\* ---------------------------------------------------------- Dashboard: user
\* fetchUser resolves: setUser.  The effects that depend on user run: the
\* matches channel and the messages-global channel are subscribed and
\* fetchUnreadTotal is called.
FetchUserDone ==
  /\ route = "dashboard"
  /\ ~user
  /\ user' = TRUE
  /\ PollEffect(isMatching, TRUE, currentRequestId, matchFound)
  /\ unreadFetch' = [st |-> "sent", count |-> 0]
  /\ UNCHANGED <<isMatching, matchFound, currentRequestId, reqSeq, insSt,
                 lookups, toasts, dbRequests, matchEvents>>
  /\ UNCHANGED <<unreadTotal, globalEvents, chatVars, route, dbVars>>
  /\ UNCHANGED <<selectedSkill, pollCalls, errorToasts>>
  /\ UNCHANGED <<lateEvents, blockVars>>

\* ------------------------------------------------- Dashboard: submit request
\* The search input: onChange selects the skill of that name or none, a click
\* on a suggestion selects it.  The input is disabled while isMatching.
SelectSkill(sk) ==
  /\ route = "dashboard"
  /\ ~isMatching
  /\ sk # selectedSkill
  /\ selectedSkill' = sk
  /\ UNCHANGED pollCalls
  /\ UNCHANGED <<matchVars, unreadVars, chatVars, route, dbVars, errorToasts>>
  /\ UNCHANGED <<lateEvents, blockVars>>

\* The validation, had it been left out.
SkillValidAlways(sk) == TRUE

\* The validation of handleRequestMatch: if (!selectedSkill) { toast; return }
SkillValid(sk) == sk

\* handleRequestMatch up to its await: the button is disabled while isMatching.
\* Without a selected skill it notifies and returns; without a user it returns.
\* The button is enabled again once a match was found: the overlay shown for
\* matchFound covers it for the pointer but it stays focusable and operable
\* from the keyboard, so a new request can follow a Matched outcome.
RequestMatch ==
  /\ route = "dashboard"
  /\ ~isMatching
  /\ IF ~SkillValid(selectedSkill)
     THEN /\ errorToasts["Validation"] < MaxInvalid
          /\ errorToasts' = [errorToasts EXCEPT !["Validation"] = @ + 1]
          /\ UNCHANGED <<reqSeq, isMatching, matchFound, currentRequestId, insSt,
                         intervalReq, matchCheckCount, closureMatchFound, ticks>>
     ELSE /\ user
          /\ reqSeq < MaxRequests
          /\ reqSeq' = reqSeq + 1
          /\ isMatching' = TRUE
          /\ matchFound' = Null
          /\ currentRequestId' = Null
          /\ insSt' = [insSt EXCEPT ![reqSeq + 1] = "sent"]
          /\ PollEffect(TRUE, user, Null, Null)
          /\ UNCHANGED errorToasts
  /\ UNCHANGED <<user, lookups, toasts, dbRequests, matchEvents>>
  /\ UNCHANGED <<unreadVars, chatVars, route, dbVars>>
  /\ UNCHANGED <<selectedSkill, pollCalls>>
  /\ UNCHANGED <<lateEvents, blockVars>>

\* The backend executes the insert: the row is created, or the insert is rejected.
InsertExec(r) ==
  /\ insSt[r] = "sent"
  /\ \/ /\ insSt' = [insSt EXCEPT ![r] = "ok"]
        /\ dbRequests' = dbRequests \cup {r}
     \/ /\ insSt' = [insSt EXCEPT ![r] = "err"]
        /\ UNCHANGED dbRequests
  /\ UNCHANGED <<user, isMatching, matchFound, currentRequestId, reqSeq,
                 intervalReq, matchCheckCount, closureMatchFound, ticks, lookups, toasts, matchEvents>>
  /\ UNCHANGED <<unreadVars, chatVars, route, dbVars>>
  /\ UNCHANGED <<selectedSkill, pollCalls, errorToasts>>
  /\ UNCHANGED <<lateEvents, blockVars>>

\* if (error) { ...; setIsMatching(false); return; }
SubmitFailed(st) == st = "err"

\* handleRequestMatch after its await.
InsertReturn(r) ==
  /\ insSt[r] \in {"ok", "err"}
  /\ insSt' = [insSt EXCEPT ![r] = IF insSt[r] = "err" THEN "failed" ELSE "done"]
  /\ IF SubmitFailed(insSt[r])
     THEN /\ isMatching' = FALSE
          /\ errorToasts' = [errorToasts EXCEPT !["Submission"] = @ + 1]
          /\ UNCHANGED currentRequestId
          /\ PollEffect(FALSE, user, currentRequestId, matchFound)
     ELSE /\ currentRequestId' = r
          /\ UNCHANGED <<isMatching, errorToasts>>
          /\ PollEffect(isMatching, user, r, matchFound)
  /\ UNCHANGED <<user, matchFound, reqSeq, lookups, toasts, dbRequests, matchEvents>>
  /\ UNCHANGED <<unreadVars, chatVars, route, dbVars>>
  /\ UNCHANGED <<selectedSkill, pollCalls>>
  /\ UNCHANGED <<lateEvents, blockVars>>

\* ------------------------------------------------------------------ backend
\* The backend pairs request r with a reciprocal request: the request row is
\* deleted and a new Match naming the user is inserted (the Match created for
\* request r carries id r).  The INSERT is streamed to the subscribed channel.
BackendMatchNew(r) ==
  /\ r \in dbRequests
  /\ dbRequests' = dbRequests \ {r}
  /\ matchEvents' = IF user THEN matchEvents \cup {[mid |-> r, mine |-> TRUE]}
                    ELSE matchEvents
  /\ UNCHANGED <<user, isMatching, matchFound, currentRequestId, reqSeq, insSt,
                 intervalReq, matchCheckCount, closureMatchFound, ticks, lookups, toasts>>
  /\ UNCHANGED <<unreadVars, chatVars, route, dbVars>>
  /\ UNCHANGED <<selectedSkill, pollCalls, errorToasts>>
  /\ UNCHANGED <<lateEvents, blockVars>>

\* The reciprocal user is already a friend: the backend only deletes the request.
BackendMatchExisting(r) ==
  /\ r \in dbRequests
  /\ dbRequests' = dbRequests \ {r}
  /\ UNCHANGED <<user, isMatching, matchFound, currentRequestId, reqSeq, insSt,
                 intervalReq, matchCheckCount, closureMatchFound, ticks, lookups, toasts, matchEvents>>
  /\ UNCHANGED <<unreadVars, chatVars, route, dbVars>>
  /\ UNCHANGED <<selectedSkill, pollCalls, errorToasts>>
  /\ UNCHANGED <<lateEvents, blockVars>>

\* A Match between two other users is inserted; the channel has no filter.
BackendMatchOthers ==
  /\ user
  /\ [mid |-> Null, mine |-> FALSE] \notin matchEvents
  /\ matchEvents' = matchEvents \cup {[mid |-> Null, mine |-> FALSE]}
  /\ UNCHANGED <<user, isMatching, matchFound, currentRequestId, reqSeq, insSt,
                 intervalReq, matchCheckCount, closureMatchFound, ticks, lookups, toasts, dbRequests>>
  /\ UNCHANGED <<unreadVars, chatVars, route, dbVars>>
  /\ UNCHANGED <<selectedSkill, pollCalls, errorToasts>>
  /\ UNCHANGED <<lateEvents, blockVars>>

\* ---------------------------------------------------------------- push path
\* The matches channel handler up to its await (the display-name lookup).
PushEvent(e) ==
  /\ e \in matchEvents
  /\ matchEvents' = matchEvents \ {e}
  /\ lookups' = IF e.mine THEN lookups \cup {e.mid} ELSE lookups
  /\ UNCHANGED <<user, isMatching, matchFound, currentRequestId, reqSeq, insSt,
                 intervalReq, matchCheckCount, closureMatchFound, ticks, toasts, dbRequests>>
  /\ UNCHANGED <<unreadVars, chatVars, route, dbVars>>
  /\ UNCHANGED <<selectedSkill, pollCalls, errorToasts>>
  /\ UNCHANGED <<lateEvents, blockVars>>

\* The handler after the lookup: with a username it sets the outcome payload,
\* clears the flag and notifies; without one it does nothing.
PushResume(m, found) ==
  /\ m \in lookups
  /\ lookups' = lookups \ {m}
  /\ IF found
     THEN /\ matchFound' = m
          /\ isMatching' = FALSE
          /\ toasts' = Toast(toasts, m, "MatchFound")
          /\ PollEffect(FALSE, user, currentRequestId, m)
     ELSE UNCHANGED <<matchFound, isMatching, toasts, intervalReq, matchCheckCount,
                      closureMatchFound, ticks>>
  /\ UNCHANGED <<user, currentRequestId, reqSeq, insSt, dbRequests, matchEvents>>
  /\ UNCHANGED <<unreadVars, chatVars, route, dbVars>>
  /\ UNCHANGED <<selectedSkill, pollCalls, errorToasts>>
  /\ UNCHANGED <<lateEvents, blockVars>>

\* ---------------------------------------------------------------- poll path
\* Existence queries awaited by all poll effects together.
InFlight ==
  LET OfReq(r) == ticks[r]["sent"] + ticks[r]["exists"] + ticks[r]["gone"] + ticks[r]["err"]
      Sum[n \in 0..MaxRequests] == IF n = 0 THEN 0 ELSE OfReq(n) + Sum[n - 1]
  IN Sum[MaxRequests]

\* setInterval fires: pollForMatch up to its await.
PollTick ==
  /\ intervalReq # Null
  /\ matchCheckCount[intervalReq] < MaxTicks
  /\ InFlight < MaxInFlight
  /\ matchCheckCount' = [matchCheckCount EXCEPT ![intervalReq] = @ + 1]
  /\ ticks' = [ticks EXCEPT ![intervalReq]["sent"] = @ + 1]
  /\ UNCHANGED <<user, isMatching, matchFound, currentRequestId, reqSeq, insSt,
                 intervalReq, closureMatchFound, lookups, toasts, dbRequests,
                 matchEvents>>
  /\ UNCHANGED <<unreadVars, chatVars, route, dbVars>>
  /\ UNCHANGED <<selectedSkill, pollCalls, errorToasts>>
  /\ UNCHANGED <<lateEvents, blockVars>>

\* What the backend answers to the existence query for request r.
QueryResults(r) == {IF r \in dbRequests THEN "exists" ELSE "gone", "err"}

\* The backend answers the existence query of a suspended tick of effect r.
PollQueryExec(r) ==
  /\ ticks[r]["sent"] > 0
  /\ \E res \in QueryResults(r) :
       ticks' = [ticks EXCEPT ![r]["sent"] = @ - 1, ![r][res] = @ + 1]
  /\ UNCHANGED <<user, isMatching, matchFound, currentRequestId, reqSeq, insSt,
                 intervalReq, matchCheckCount, closureMatchFound, lookups, toasts,
                 dbRequests, matchEvents>>
  /\ UNCHANGED <<unreadVars, chatVars, route, dbVars>>
  /\ UNCHANGED <<selectedSkill, pollCalls, errorToasts>>
  /\ UNCHANGED <<lateEvents, blockVars>>

\* PollOutcome without the timeout branch: a request that still exists is
\* polled on, whatever the count.
PollOutcomeNoTimeout(r, st) ==
  IF st = "err" THEN "error"
  ELSE IF st = "gone"
       THEN IF closureMatchFound[r] = Null THEN "superseded" ELSE "stop"
       ELSE "continue"

\* PollOutcome with the test of line 618 inverted (if (matchFound) ...).
PollOutcomeInverted(r, st) ==
  IF st = "err" THEN "error"
  ELSE IF st = "gone"
       THEN IF closureMatchFound[r] # Null THEN "superseded" ELSE "stop"
       ELSE IF matchCheckCount[r] >= maxChecks THEN "exhausted" ELSE "continue"

\* Which branch pollForMatch takes after its await, for a tick of effect r
\* whose query ended st.  matchFound and the counter are the closure's.
PollOutcome(r, st) ==
  IF st = "err" THEN "error"
  ELSE IF st = "gone"
       THEN IF closureMatchFound[r] = Null THEN "superseded" ELSE "stop"
       ELSE IF matchCheckCount[r] >= maxChecks THEN "exhausted" ELSE "continue"

\* pollForMatch after its await.
PollResume(r, st) ==
  /\ st # "sent"
  /\ ticks[r][st] > 0
  /\ ticks' = [ticks EXCEPT ![r][st] = @ - 1]
  /\ LET o == PollOutcome(r, st)
     IN IF o = "continue"
        THEN UNCHANGED <<isMatching, matchFound, currentRequestId, toasts, intervalReq>>
        ELSE /\ isMatching' = FALSE
             /\ currentRequestId' = Null
             /\ matchFound' = IF o = "stop" THEN matchFound ELSE Null
             /\ toasts' = CASE o = "superseded" -> Toast(toasts, r, "ExistingConnection")
                            [] o = "exhausted"  -> Toast(toasts, r, "NoUsersOnline")
                            [] OTHER            -> toasts
             \* the re-render's effect cleanup clears the running interval
             /\ intervalReq' = IF <<FALSE, Null, matchFound'>>
                                    = <<isMatching, currentRequestId, matchFound>>
                               THEN intervalReq ELSE Null
  /\ UNCHANGED <<user, reqSeq, insSt, matchCheckCount, closureMatchFound, lookups,
                 dbRequests, matchEvents>>
  /\ UNCHANGED <<unreadVars, chatVars, route, dbVars>>
  /\ UNCHANGED <<selectedSkill, pollCalls, errorToasts>>
  /\ UNCHANGED <<lateEvents, blockVars>>

\* ------------------------------------------------------------ unread badge
\* The backend executes the count query of fetchUnreadTotal, or fails it.
UnreadFetchExec ==
  /\ unreadFetch.st = "sent"
  /\ \/ unreadFetch' = [st |-> "counted", count |-> UnreadInDb]
     \/ unreadFetch' = [st |-> "err", count |-> 0]
  /\ UNCHANGED <<matchVars, unreadTotal, globalEvents, chatVars, route, dbVars>>
  /\ UNCHANGED <<selectedSkill, pollCalls, errorToasts>>
  /\ UNCHANGED <<lateEvents, blockVars>>

\* fetchUnreadTotal after its await: setUnreadTotal(count || 0), or return on error.
UnreadFetchResume ==
  /\ unreadFetch.st \in {"counted", "err"}
  /\ unreadFetch' = [st |-> IF unreadFetch.st = "err" THEN "failed" ELSE "done",
                     count |-> 0]
  /\ unreadTotal' = IF unreadFetch.st = "err" THEN unreadTotal ELSE unreadFetch.count
  /\ UNCHANGED <<matchVars, globalEvents, chatVars, route, dbVars>>
  /\ UNCHANGED <<selectedSkill, pollCalls, errorToasts>>
  /\ UNCHANGED <<lateEvents, blockVars>>

\* A message row is inserted while the Dashboard is open: by the other
\* participant (is_read false), or by the user's own send completing
\* (is_read true).  The INSERT is streamed to the messages-global channel once
\* it is subscribed.
MessageInserted(c, s) ==
  /\ route = "dashboard"
  /\ Len(dbMessages) < MaxMsgs
  /\ dbMessages' = InsertRow(dbMessages, c, s, s = "me", 0)
  /\ globalEvents' = IF user THEN [globalEvents EXCEPT ![s] = @ + 1] ELSE globalEvents
  /\ UNCHANGED <<matchVars, unreadTotal, unreadFetch, chatVars, route, dbFriends, now>>
  /\ UNCHANGED <<selectedSkill, pollCalls, errorToasts>>
  /\ UNCHANGED <<lateEvents, blockVars>>

\* The badge, had the handler counted a row twice.
BadgeIncrementTwice(prev) == prev + 2

\* The badge after one more message of another sender was streamed.
BadgeIncrement(prev) == prev + 1

\* The messages-global channel handler.
GlobalEvent(s) ==
  /\ globalEvents[s] > 0
  /\ globalEvents' = [globalEvents EXCEPT ![s] = @ - 1]
  /\ unreadTotal' = IF s # "me" THEN BadgeIncrement(unreadTotal) ELSE unreadTotal
  /\ UNCHANGED <<matchVars, unreadFetch, chatVars, route, dbVars>>
  /\ UNCHANGED <<selectedSkill, pollCalls, errorToasts>>
  /\ UNCHANGED <<lateEvents, blockVars>>

\* The badge after the inbox button was clicked, had the click left it alone.
BadgeOnOpenKeep(prev) == prev

\* The badge after the inbox button was clicked, had the click decremented.
BadgeOnOpenDecrement(prev) == prev - 1

\* The badge after the inbox button was clicked: setUnreadTotal(0).
BadgeOnOpen(prev) == 0

\* The inbox button: the badge is cleared and the router leaves the Dashboard.
\* The page unmounts: its channels are removed, its poll interval is cleared,
\* and what its suspended calls set later is set on an unmounted component.
InboxButtonClick ==
  /\ route = "dashboard"
  /\ unreadTotal' = BadgeOnOpen(unreadTotal)
  /\ route' = "inbox"
  /\ globalEvents' = [s \in Senders |-> 0]
  /\ unreadFetch' = [st |-> "idle", count |-> 0]
  /\ matchEvents' = {}
  /\ intervalReq' = Null
  /\ ticks' = [r \in ReqIds |-> [st \in TickSt |-> 0]]
  /\ lookups' = {}
  /\ UNCHANGED <<user, isMatching, matchFound, currentRequestId, reqSeq, insSt,
                 matchCheckCount, closureMatchFound, toasts, dbRequests, dbVars>>
  /\ InboxInitial
  /\ UNCHANGED <<selectedSkill, pollCalls, errorToasts>>
  /\ UNCHANGED <<blockedToasts, dbBlocked, dbMatches>>

\* While the Inbox page is open, the load of conversation c marks its messages
\* read (the bulk update of loadMessagesAndFriend).
InboxMarkRead(c) ==
  /\ route = "inbox"
  /\ dbMessages' = BulkMarkRead(dbMessages, c)
  /\ dbMessages' # dbMessages
  /\ UNCHANGED <<matchVars, unreadVars, chatVars, route, dbFriends, now>>
  /\ UNCHANGED <<selectedSkill, pollCalls, errorToasts>>
  /\ UNCHANGED <<lateEvents, blockVars>>

\* The back arrow of the Inbox page: a new Dashboard is mounted, every state of
\* it initial.
DashboardMount ==
  /\ route = "inbox"
  /\ route' = "dashboard"
  /\ user' = FALSE
  /\ unreadTotal' = 0
  /\ isMatching' = FALSE
  /\ matchFound' = Null
  /\ currentRequestId' = Null
  /\ UNCHANGED <<reqSeq, insSt, intervalReq, matchCheckCount, closureMatchFound,
                 ticks, lookups, toasts, dbRequests, matchEvents>>
  /\ UNCHANGED <<unreadFetch, globalEvents, chatVars, dbVars>>
  /\ selectedSkill' = FALSE
  /\ UNCHANGED pollCalls
  /\ UNCHANGED errorToasts
  /\ UNCHANGED <<lateEvents, blockVars>>

\* ------------------------------------------------------------ Inbox: mount
\* The Inbox page has just been mounted, on /inbox or on /inbox/:matchId.
InitInbox ==
  /\ route = "inbox"
  /\ InitBackend
  /\ InboxState(currentUser, friendsSt, friends, unread, selectedFriend, messages,
                messageInput, isSending, isLoadingMessages, activeMatchRef)
  /\ InboxIdle(loads, chan, chatEvents, chatMarks, sends)
  /\ channels = {}
  /\ sendSeq = 0
  /\ loadSeq = 0
  /\ matchId \in {Null} \cup Convs
  /\ DashboardState

\* The Inbox page has just been mounted on /inbox/:matchId, the match one of
\* the user's own.
InitChat ==
  /\ InitInbox
  /\ matchId \in MyConvs

Mounted == route = "inbox"

\* The list entry made of message row i
\* ({id, senderId, content, sentAt}; conv and key are not fields of the source:
\* they name the row's conversation and the send it came from).
Entry(i) ==
  [id |-> i, sender |-> dbMessages[i].sender, sentAt |-> dbMessages[i].sentAt,
   conv |-> dbMessages[i].conv, key |-> dbMessages[i].key]

\* select ... from messages where match_id = c order by sent_at asc: every
\* order of the rows of c that is ascending in sent_at (rows with equal sent_at
\* come in an order the backend chooses).
FetchResults(c) ==
  LET ids == {i \in 1..Len(dbMessages) : dbMessages[i].conv = c}
      n == Cardinality(ids)
  IN {[k \in 1..n |-> Entry(f[k])] :
        f \in {g \in [1..n -> ids] :
                 /\ \A x, y \in 1..n : x # y => g[x] # g[y]
                 /\ \A x, y \in 1..n :
                      x < y => dbMessages[g[x]].sentAt <= dbMessages[g[y]].sentAt}}

\* The friends query of the earlier Inbox variant (src/unnamed/part_000, line
\* 272): .eq("match_id", m).single(), any two users' row is found.
FriendRowFoundAnyUser(m) == m \in dbFriends \cup ForeignConvs

\* select user_a, user_b from friends where match_id = m
\*   and (user_a = current user or user_b = current user): a row is found.
FriendRowFound(m) == m \in dbFriends

\* count of unread rows of other senders in conversation c (loadFriends)
UnreadOf(c) ==
  Cardinality({i \in 1..Len(dbMessages) :
                 dbMessages[i].conv = c /\ dbMessages[i].sender # "me"
                 /\ ~dbMessages[i].isRead})

\* The cleanup of the load effect: cancelled = true in the closure of its last run.
Cancel(ls) == {[l EXCEPT !.cancelled = TRUE] : l \in ls}

\* A cleanup that leaves its channel subscribed.
RemoveChannelNone(chs, c) == chs

\* supabase.removeChannel(channel): the channel of the effect run being cleaned
\* up leaves the client's subscriptions.
RemoveChannel(chs, c) == chs \ {c}

\* supabase.removeChannel(channel) of the effect cleanup returns a promise the
\* cleanup does not await: rows already on their way to the removed channel
\* may still reach its handler, or not.
Late(c, evs) == {[conv |-> c, id |-> evs[k]] : k \in 1..Len(evs)}

\* The load effect and the channel effect, run after a render in which matchId
\* or currentUser changed and currentUser is set.  m is the new route
\* parameter, sel and fr the selectedFriend and friends of that render.
InboxEffects(m, sel, fr) ==
  /\ chan' = m
  /\ channels' = RemoveChannel(channels, chan) \cup ({m} \ {Null})
  /\ chatEvents' = <<>>
  /\ lateEvents' = lateEvents \cup Late(chan, chatEvents)
  /\ IF m = Null
     THEN \* /inbox: clear the selection, start no load
          /\ selectedFriend' = Null
          /\ messages' = IF sel # Null THEN <<>> ELSE messages
          /\ loads' = Cancel(loads)
          /\ UNCHANGED <<activeMatchRef, isLoadingMessages, loadSeq>>
     ELSE \* /inbox/:matchId: loadMessagesAndFriend up to its first await
          /\ activeMatchRef' = m
          /\ isLoadingMessages' = TRUE
          /\ selectedFriend' = IF m \in fr THEN m ELSE sel
          /\ loads' = Cancel(loads) \cup
                        {[match |-> m, pc |-> IF m \in fr THEN "fetch" ELSE "access",
                          cancelled |-> FALSE, sel |-> sel, data |-> <<>>]}
          /\ loadSeq' = loadSeq + 1
          /\ UNCHANGED messages

\* The router leaves the Inbox page: both effects are cleaned up.
InboxUnmount ==
  /\ chan' = Null
  /\ channels' = RemoveChannel(channels, chan)
  /\ chatEvents' = <<>>
  /\ lateEvents' = lateEvents \cup Late(chan, chatEvents)
  /\ loads' = Cancel(loads)
  /\ matchId' = Null

\* loadUserFromSupabase resolves: setCurrentUser.  The effects on currentUser
\* run: loadFriends is called, and the load and channel effects.
LoadUserDone ==
  /\ Mounted
  /\ ~currentUser
  /\ matchId # Null => loadSeq < MaxLoads
  /\ currentUser' = TRUE
  /\ friendsSt' = "sent"
  /\ InboxEffects(matchId, selectedFriend, friends)
  /\ UNCHANGED <<friends, unread, messageInput, isSending, chatMarks, sends,
                 sendSeq, matchId>>
  /\ UNCHANGED <<matchVars, unreadVars, route, dbVars>>
  /\ UNCHANGED <<selectedSkill, pollCalls, errorToasts>>
  /\ UNCHANGED blockVars

\* loadFriends resolves: the friends rows of the user, each with its count of
\* unread messages.
LoadFriendsDone ==
  /\ friendsSt = "sent"
  /\ friendsSt' = "done"
  /\ IF Mounted
     THEN /\ friends' = dbFriends
          /\ unread' = [c \in Convs |-> IF c \in dbFriends THEN UnreadOf(c) ELSE 0]
     ELSE UNCHANGED <<friends, unread>>
  /\ UNCHANGED <<currentUser, selectedFriend, messages, messageInput, isSending,
                 isLoadingMessages, activeMatchRef, loads, chan, channels, chatEvents,
                 chatMarks, sends, sendSeq, loadSeq, matchId>>
  /\ UNCHANGED <<matchVars, unreadVars, route, dbVars>>
  /\ UNCHANGED <<selectedSkill, pollCalls, errorToasts>>
  /\ UNCHANGED <<lateEvents, blockVars>>

\* The route parameter changes while the Inbox page stays mounted (history
\* navigation, a link).
RouteChange(m) ==
  /\ Mounted
  /\ m # matchId
  /\ m # Null => loadSeq < MaxLoads
  /\ matchId' = m
  /\ IF currentUser
     THEN InboxEffects(m, selectedFriend, friends)
     ELSE UNCHANGED <<chan, channels, chatEvents, lateEvents, selectedFriend, messages,
                      loads, activeMatchRef, isLoadingMessages, loadSeq>>
  /\ UNCHANGED <<currentUser, friendsSt, friends, unread, messageInput, isSending,
                 chatMarks, sends, sendSeq>>
  /\ UNCHANGED <<matchVars, unreadVars, route, dbVars>>
  /\ UNCHANGED <<selectedSkill, pollCalls, errorToasts>>
  /\ UNCHANGED blockVars

\* A friend of the sidebar is clicked: setSelectedFriend(friend), navigate.
ClickFriend(c) ==
  /\ Mounted
  /\ currentUser
  /\ c \in friends
  /\ c # matchId => loadSeq < MaxLoads
  /\ matchId' = c
  /\ IF c # matchId
     THEN InboxEffects(c, c, friends)
     ELSE /\ selectedFriend' = c
          /\ UNCHANGED <<chan, channels, chatEvents, lateEvents, messages, loads,
                         activeMatchRef, isLoadingMessages, loadSeq>>
  /\ UNCHANGED <<currentUser, friendsSt, friends, unread, messageInput, isSending,
                 chatMarks, sends, sendSeq>>
  /\ UNCHANGED <<matchVars, unreadVars, route, dbVars>>
  /\ UNCHANGED <<selectedSkill, pollCalls, errorToasts>>
  /\ UNCHANGED blockVars

\* The back arrow: navigate("/dashboard").
LeaveInbox ==
  /\ Mounted
  /\ route' = "dashboard"
  /\ InboxUnmount
  /\ UNCHANGED <<currentUser, friendsSt, friends, unread, selectedFriend, messages,
                 messageInput, isSending, isLoadingMessages, activeMatchRef,
                 chatMarks, sends, sendSeq, loadSeq>>
  /\ UNCHANGED <<matchVars, unreadVars, dbVars>>
  /\ UNCHANGED <<selectedSkill, pollCalls, errorToasts>>
  /\ UNCHANGED blockVars

\* ------------------------------------------------- Inbox: loadMessagesAndFriend
Step(l, pc) == (loads \ {l}) \cup {[l EXCEPT !.pc = pc]}

\* The backend answers the friends query of the fallback.
LoadAccessExec(l) ==
  /\ l \in loads /\ l.pc = "access"
  /\ loads' = Step(l, IF FriendRowFound(l.match) THEN "row" ELSE "norow")
  /\ UNCHANGED <<currentUser, friendsSt, friends, unread, selectedFriend, messages,
                 messageInput, isSending, isLoadingMessages, activeMatchRef, chan, channels,
                 chatEvents, chatMarks, sends, sendSeq, loadSeq, matchId>>
  /\ UNCHANGED <<matchVars, unreadVars, route, dbVars>>
  /\ UNCHANGED <<selectedSkill, pollCalls, errorToasts>>
  /\ UNCHANGED <<lateEvents, blockVars>>

\* The friends query of the earlier Inbox variant:
\* .eq("match_id", matchToLoadId).single(), with no condition on user_a or
\* user_b: the row of the match is found whoever its two users are.
FriendRowByMatchId(m) == m \in dbFriends \cup ForeignConvs

\* The backend answers the friends query of the earlier variant's fallback.
LoadAccessExecEarlier(l) ==
  /\ l \in loads /\ l.pc = "access"
  /\ loads' = Step(l, IF FriendRowByMatchId(l.match) THEN "row" ELSE "norow")
  /\ UNCHANGED <<currentUser, friendsSt, friends, unread, selectedFriend, messages,
                 messageInput, isSending, isLoadingMessages, activeMatchRef, chan,
                 channels, chatEvents, chatMarks, sends, sendSeq, loadSeq, matchId>>
  /\ UNCHANGED <<matchVars, unreadVars, route, dbVars>>
  /\ UNCHANGED <<selectedSkill, pollCalls, errorToasts>>
  /\ UNCHANGED <<lateEvents, blockVars>>

\* After the friends query: without a row, navigate to the access-denied page
\* and clear the loading flag; with one, look the other user's name up.
LoadAccessResume(l) ==
  /\ l \in loads /\ l.pc \in {"row", "norow"}
  /\ IF l.pc = "norow"
     THEN /\ route' = "denied"
          /\ IF Mounted
             THEN /\ chan' = Null
                  /\ channels' = RemoveChannel(channels, chan)
                  /\ chatEvents' = <<>>
                  /\ lateEvents' = lateEvents \cup Late(chan, chatEvents)
                  /\ loads' = Cancel(loads \ {l})
                  /\ matchId' = Null
                  /\ isLoadingMessages' = FALSE
             ELSE /\ loads' = loads \ {l}
                  /\ UNCHANGED <<chan, channels, chatEvents, lateEvents, matchId,
                                 isLoadingMessages>>
     ELSE /\ loads' = Step(l, "name")
          /\ UNCHANGED <<route, chan, channels, chatEvents, lateEvents, matchId,
                         isLoadingMessages>>
  /\ UNCHANGED <<currentUser, friendsSt, friends, unread, selectedFriend, messages,
                 messageInput, isSending, activeMatchRef, chatMarks, sends, sendSeq, loadSeq>>
  /\ UNCHANGED <<matchVars, unreadVars, dbVars>>
  /\ UNCHANGED <<selectedSkill, pollCalls, errorToasts>>
  /\ UNCHANGED blockVars

\* After the name lookup: the temporary friend is selected unless the closure's
\* selectedFriend is already that match; the messages query is issued.
LoadNameResume(l) ==
  /\ l \in loads /\ l.pc = "name"
  /\ selectedFriend' = IF Mounted /\ l.sel # l.match THEN l.match ELSE selectedFriend
  /\ loads' = Step(l, "fetch")
  /\ UNCHANGED <<currentUser, friendsSt, friends, unread, messages, messageInput,
                 isSending, isLoadingMessages, activeMatchRef, chan, channels, chatEvents,
                 chatMarks, sends, sendSeq, loadSeq, matchId>>
  /\ UNCHANGED <<matchVars, unreadVars, route, dbVars>>
  /\ UNCHANGED <<selectedSkill, pollCalls, errorToasts>>
  /\ UNCHANGED <<lateEvents, blockVars>>

\* The backend answers the messages query, or fails it.
LoadFetchExec(l) ==
  /\ l \in loads /\ l.pc = "fetch"
  /\ \/ \E d \in FetchResults(l.match) :
          loads' = (loads \ {l}) \cup {[l EXCEPT !.pc = "fetched", !.data = d]}
     \/ loads' = Step(l, "fetcherr")
  /\ UNCHANGED <<currentUser, friendsSt, friends, unread, selectedFriend, messages,
                 messageInput, isSending, isLoadingMessages, activeMatchRef, chan, channels,
                 chatEvents, chatMarks, sends, sendSeq, loadSeq, matchId>>
  /\ UNCHANGED <<matchVars, unreadVars, route, dbVars>>
  /\ UNCHANGED <<selectedSkill, pollCalls, errorToasts>>
  /\ UNCHANGED <<lateEvents, blockVars>>

\* The staleness test after the messages query, had it looked at the error only.
FetchIsStaleErrorOnly(l) == l.pc = "fetcherr"

\* if (error || cancelled || activeMatchRef.current !== matchToLoadId)
FetchIsStale(l) ==
  l.pc = "fetcherr" \/ l.cancelled \/ activeMatchRef # l.match

\* After the messages query: a stale result only clears the loading flag; a
\* current one replaces the message list, and the bulk update is issued.
LoadFetchResume(l) ==
  /\ l \in loads /\ l.pc \in {"fetched", "fetcherr"}
  /\ IF FetchIsStale(l)
     THEN /\ isLoadingMessages' = IF Mounted THEN FALSE ELSE isLoadingMessages
          /\ loads' = loads \ {l}
          /\ UNCHANGED messages
     ELSE /\ messages' = IF Mounted THEN l.data ELSE messages
          /\ loads' = (loads \ {l}) \cup {[l EXCEPT !.pc = "mark", !.data = <<>>]}
          /\ UNCHANGED isLoadingMessages
  /\ UNCHANGED <<currentUser, friendsSt, friends, unread, selectedFriend,
                 messageInput, isSending, activeMatchRef, chan, channels, chatEvents,
                 chatMarks, sends, sendSeq, loadSeq, matchId>>
  /\ UNCHANGED <<matchVars, unreadVars, route, dbVars>>
  /\ UNCHANGED <<selectedSkill, pollCalls, errorToasts>>
  /\ UNCHANGED <<lateEvents, blockVars>>

\* The backend executes the bulk mark-as-read update.
LoadMarkExec(l) ==
  /\ l \in loads /\ l.pc = "mark"
  /\ dbMessages' = BulkMarkRead(dbMessages, l.match)
  /\ loads' = Step(l, "marked")
  /\ UNCHANGED <<currentUser, friendsSt, friends, unread, selectedFriend, messages,
                 messageInput, isSending, isLoadingMessages, activeMatchRef, chan, channels,
                 chatEvents, chatMarks, sends, sendSeq, loadSeq, matchId>>
  /\ UNCHANGED <<matchVars, unreadVars, route, dbFriends, now>>
  /\ UNCHANGED <<selectedSkill, pollCalls, errorToasts>>
  /\ UNCHANGED <<lateEvents, blockVars>>

\* After the bulk update: the friend's unread value and the loading flag are cleared.
LoadMarkResume(l) ==
  /\ l \in loads /\ l.pc = "marked"
  /\ loads' = loads \ {l}
  /\ IF Mounted
     THEN /\ unread' = [unread EXCEPT ![l.match] = 0]
          /\ isLoadingMessages' = FALSE
     ELSE UNCHANGED <<unread, isLoadingMessages>>
  /\ UNCHANGED <<currentUser, friendsSt, friends, selectedFriend, messages,
                 messageInput, isSending, activeMatchRef, chan, channels, chatEvents,
                 chatMarks, sends, sendSeq, loadSeq, matchId>>
  /\ UNCHANGED <<matchVars, unreadVars, route, dbVars>>
  /\ UNCHANGED <<selectedSkill, pollCalls, errorToasts>>
  /\ UNCHANGED <<lateEvents, blockVars>>

\* ------------------------------------------------------ Inbox: sending
\* The user types into the message input (rendered while a friend is selected,
\* disabled while a send is awaited).
Inputs == {"text", " text "}

\* messageInput.trim()
Trim(t) == IF t = " text " THEN "text" ELSE t

TypeMessage(t) ==
  /\ Mounted
  /\ selectedFriend # Null
  /\ ~isSending
  /\ messageInput = ""
  /\ messageInput' = t
  /\ UNCHANGED <<currentUser, friendsSt, friends, unread, selectedFriend, messages,
                 isSending, isLoadingMessages, activeMatchRef, loads, chan, channels,
                 chatEvents, chatMarks, sends, sendSeq, loadSeq, matchId>>
  /\ UNCHANGED <<matchVars, unreadVars, route, dbVars>>
  /\ UNCHANGED <<selectedSkill, pollCalls, errorToasts>>
  /\ UNCHANGED <<lateEvents, blockVars>>

\* The entry handleSendMessage appends before the insert: a temporary id made
\* of the clock (the k-th send starts after the insert of the one before it
\* returned, so its Date.now() is a later one) and the client's timestamp.
TempMessage(k) ==
  [id |-> TempIdBase + k, sender |-> "me", sentAt |-> now,
   conv |-> selectedFriend, key |-> k]

\* handleSendMessage up to its await: the input is cleared, isSending set, the
\* temporary entry appended, and the insert issued for selectedFriend's match.
SendMessage ==
  /\ Mounted
  /\ Trim(messageInput) # "" /\ selectedFriend # Null /\ currentUser
  /\ ~isSending
  /\ sendSeq < MaxMsgs
  /\ Len(dbMessages) + Cardinality(sends) < MaxMsgs
  /\ messageInput' = ""
  /\ isSending' = TRUE
  /\ sendSeq' = sendSeq + 1
  /\ messages' = Append(messages, TempMessage(sendSeq + 1))
  /\ sends' = sends \cup {[tmp |-> TempIdBase + sendSeq + 1, conv |-> selectedFriend,
                            key |-> sendSeq + 1, content |-> Trim(messageInput),
                            st |-> "sent"]}
  /\ UNCHANGED <<currentUser, friendsSt, friends, unread, selectedFriend,
                 isLoadingMessages, activeMatchRef, loads, chan, channels, chatEvents,
                 chatMarks, loadSeq, matchId>>
  /\ UNCHANGED <<matchVars, unreadVars, route, dbVars>>
  /\ UNCHANGED <<selectedSkill, pollCalls, errorToasts>>
  /\ UNCHANGED <<lateEvents, blockVars>>

\* The backend executes the insert (is_read true) and streams it to the
\* channel subscribed for its conversation, or rejects it.
SendExec(x) ==
  /\ x \in sends /\ x.st = "sent"
  /\ \/ /\ dbMessages' = InsertRow(dbMessages, x.conv, "me", TRUE, x.key)
        /\ chatEvents' = IF chan = x.conv THEN Append(chatEvents, Len(dbMessages) + 1)
                          ELSE chatEvents
        /\ sends' = (sends \ {x}) \cup {[x EXCEPT !.st = "ok"]}
     \/ /\ sends' = (sends \ {x}) \cup {[x EXCEPT !.st = "err"]}
        /\ UNCHANGED <<dbMessages, chatEvents>>
  /\ UNCHANGED <<currentUser, friendsSt, friends, unread, selectedFriend, messages,
                 messageInput, isSending, isLoadingMessages, activeMatchRef, loads,
                 chan, channels, chatMarks, sendSeq, loadSeq, matchId>>
  /\ UNCHANGED <<matchVars, unreadVars, route, dbFriends, now>>
  /\ UNCHANGED <<selectedSkill, pollCalls, errorToasts>>
  /\ UNCHANGED <<lateEvents, blockVars>>

\* A rollback that drops the newest entry instead.
RollbackNewest(msgs, tmp) ==
  IF msgs = <<>> THEN msgs ELSE SubSeq(msgs, 1, Len(msgs) - 1)

\* The list after the rollback: filter((msg) => msg.id !== tempMessage.id)
Rollback(msgs, tmp) == SelectSeq(msgs, LAMBDA e : e.id # tmp)

\* handleSendMessage after its await: isSending is cleared; on an error the
\* temporary entry is removed, the input restored and the failure notified.
SendResume(x) ==
  /\ x \in sends /\ x.st \in {"ok", "err"}
  /\ sends' = sends \ {x}
  /\ IF Mounted
     THEN /\ isSending' = FALSE
          /\ messages' = IF x.st = "err" THEN Rollback(messages, x.tmp) ELSE messages
          /\ messageInput' = IF x.st = "err" THEN x.content ELSE messageInput
     ELSE UNCHANGED <<isSending, messages, messageInput>>
  /\ errorToasts' = IF x.st = "err" THEN [errorToasts EXCEPT !["Send"] = @ + 1]
                    ELSE errorToasts
  /\ UNCHANGED <<currentUser, friendsSt, friends, unread, selectedFriend,
                 isLoadingMessages, activeMatchRef, loads, chan, channels, chatEvents,
                 chatMarks, sendSeq, loadSeq, matchId>>
  /\ UNCHANGED <<matchVars, unreadVars, route, dbVars>>
  /\ UNCHANGED <<selectedSkill, pollCalls>>
  /\ UNCHANGED <<lateEvents, blockVars>>

\* ------------------------------------------------ Inbox: delete and block
BlockSteps == <<"insert", "friends", "match">>

\* The outcomes of one awaited call: the row change is made; the backend
\* rejects it and the call resolves with an error object; the call throws.
BlockOutcomes == {"ok", "rejected", "thrown"}

\* handleDeleteAndBlock calls started so far and not yet forgotten.
BlocksStarted ==
  Cardinality(blocks) + errorToasts["Block"]
    + Cardinality({c \in Convs : blockedToasts[c] > 0})

\* The trash button of a friends entry, the confirm dialog accepted:
\* handleDeleteAndBlock up to its first await.  The closure holds the
\* selectedFriend of the render the button was clicked in.
BlockClick(c) ==
  /\ Mounted
  /\ currentUser
  /\ c \in friends
  /\ BlocksStarted < MaxBlocks
  /\ \A b \in blocks : b.conv # c
  /\ blocks' = blocks \cup {[conv |-> c, step |-> 1, st |-> "sent", sel |-> selectedFriend]}
  /\ UNCHANGED <<blockedToasts, dbBlocked, dbMatches>>
  /\ UNCHANGED <<matchVars, unreadVars, chatVars, route, dbVars>>
  /\ UNCHANGED <<selectedSkill, pollCalls, errorToasts, lateEvents>>

\* The backend executes the awaited call of a block: the insert of the two
\* blocked_users rows, the delete of the friends row, the delete of the match.
BlockExec(b, out) ==
  /\ b \in blocks /\ b.st = "sent"
  /\ blocks' = (blocks \ {b}) \cup {[b EXCEPT !.st = out]}
  /\ dbBlocked' = IF out = "ok" /\ BlockSteps[b.step] = "insert"
                  THEN dbBlocked \cup {b.conv} ELSE dbBlocked
  /\ dbFriends' = IF out = "ok" /\ BlockSteps[b.step] = "friends"
                  THEN dbFriends \ {b.conv} ELSE dbFriends
  /\ dbMatches' = IF out = "ok" /\ BlockSteps[b.step] = "match"
                  THEN dbMatches \ {b.conv} ELSE dbMatches
  /\ UNCHANGED <<blockedToasts, dbMessages, now>>
  /\ UNCHANGED <<matchVars, unreadVars, chatVars, route>>
  /\ UNCHANGED <<selectedSkill, pollCalls, errorToasts, lateEvents>>

\* The awaited call made the try block fail: only a thrown call does, the
\* error object of a resolved call is not looked at.
BlockStepFailed(st) == st = "thrown"

\* handleDeleteAndBlock after an await.  A thrown call ends in the catch block
\* (the "Failed to delete & block user" notification); otherwise the next call
\* is issued, and after the last one the friend is removed from the list, the
\* selection and the messages are cleared and the router sent to /inbox if the
\* closure's selectedFriend is the friend, and "Blocked" is notified.
BlockResume(b) ==
  /\ b \in blocks /\ b.st # "sent"
  /\ IF BlockStepFailed(b.st)
     THEN /\ blocks' = blocks \ {b}
          /\ errorToasts' = [errorToasts EXCEPT !["Block"] = @ + 1]
          /\ UNCHANGED <<blockedToasts, friends, selectedFriend, messages, matchId,
                         route, chan, channels, chatEvents, lateEvents, loads, currentUser,
                         friendsSt, unread, messageInput, isSending,
                         isLoadingMessages, activeMatchRef, chatMarks, sends>>
          /\ UNCHANGED <<unreadVars, matchVars>>
     ELSE IF b.step < Len(BlockSteps)
     THEN /\ blocks' = (blocks \ {b}) \cup {[b EXCEPT !.step = @ + 1, !.st = "sent"]}
          /\ UNCHANGED <<blockedToasts, errorToasts, friends, selectedFriend,
                         messages, matchId, route, chan, channels, chatEvents, lateEvents,
                         loads, currentUser, friendsSt, unread, messageInput,
                         isSending, isLoadingMessages, activeMatchRef, chatMarks,
                         sends>>
          /\ UNCHANGED <<unreadVars, matchVars>>
     ELSE /\ blockedToasts' = [blockedToasts EXCEPT ![b.conv] = @ + 1]
          /\ UNCHANGED errorToasts
          /\ IF Mounted
             THEN /\ blocks' = blocks \ {b}
                  /\ friends' = friends \ {b.conv}
                  /\ IF b.sel = b.conv
                     THEN \* setSelectedFriend(null); setMessages([]); navigate("/inbox")
                          /\ selectedFriend' = Null
                          /\ messages' = <<>>
                          /\ matchId' = Null
                          /\ chan' = Null
                          /\ channels' = RemoveChannel(channels, chan)
                          /\ chatEvents' = <<>>
                          /\ lateEvents' = lateEvents \cup Late(chan, chatEvents)
                          /\ loads' = Cancel(loads)
                     ELSE UNCHANGED <<selectedFriend, messages, matchId, chan, channels,
                                      chatEvents, lateEvents, loads>>
                  /\ UNCHANGED <<route, currentUser, friendsSt, unread, messageInput,
                                 isSending, isLoadingMessages, activeMatchRef,
                                 chatMarks, sends>>
                  /\ UNCHANGED <<unreadVars, matchVars>>
             ELSE IF b.sel = b.conv
             THEN \* the page is gone: navigate("/inbox") mounts a new one
                  /\ route' = "inbox"
                  /\ InboxInitial
                  /\ IF route = "dashboard"
                     THEN /\ globalEvents' = [s \in Senders |-> 0]
                          /\ unreadFetch' = [st |-> "idle", count |-> 0]
                          /\ matchEvents' = {}
                          /\ intervalReq' = Null
                          /\ ticks' = [r \in ReqIds |-> [st \in TickSt |-> 0]]
                          /\ lookups' = {}
                     ELSE UNCHANGED <<globalEvents, unreadFetch, matchEvents,
                                      intervalReq, ticks, lookups>>
                  /\ UNCHANGED <<unreadTotal, user, isMatching, matchFound,
                                 currentRequestId, reqSeq, insSt, matchCheckCount,
                                 closureMatchFound, toasts, dbRequests>>
             ELSE /\ blocks' = blocks \ {b}
                  /\ UNCHANGED <<friends, selectedFriend, messages, matchId, route,
                                 chan, channels, chatEvents, lateEvents, loads, currentUser,
                                 friendsSt, unread, messageInput, isSending,
                                 isLoadingMessages, activeMatchRef, chatMarks, sends>>
                  /\ UNCHANGED <<unreadVars, matchVars>>
  /\ UNCHANGED <<sendSeq, loadSeq, dbVars, dbBlocked, dbMatches, selectedSkill,
                 pollCalls>>

\* ------------------------------------------------------ Inbox: live stream
\* The other participant of conversation c sends a message (is_read false);
\* the insert is streamed to the channel subscribed for c.
RemoteSend(c) ==
  /\ c \in dbFriends
  /\ Len(dbMessages) + Cardinality(sends) < MaxMsgs
  /\ Cardinality({i \in 1..Len(dbMessages) : dbMessages[i].sender # "me"}) < MaxRemote
  /\ dbMessages' = InsertRow(dbMessages, c, "other", FALSE, 0)
  /\ chatEvents' = IF chan = c THEN Append(chatEvents, Len(dbMessages) + 1)
                    ELSE chatEvents
  /\ UNCHANGED <<currentUser, friendsSt, friends, unread, selectedFriend, messages,
                 messageInput, isSending, isLoadingMessages, activeMatchRef, loads,
                 chan, channels, chatMarks, sends, sendSeq, loadSeq, matchId>>
  /\ UNCHANGED <<matchVars, unreadVars, route, dbFriends, now>>
  /\ UNCHANGED <<selectedSkill, pollCalls, errorToasts>>
  /\ UNCHANGED <<lateEvents, blockVars>>

\* if (newMsg.sender_id === currentUser.id) return;
IsSelfSent(i) == dbMessages[i].sender = "me"

\* The test of the handler, had it been left out.
IsInactiveChatNever(currentMatchId) == FALSE

\* if (activeMatchRef.current !== currentMatchId) return;
IsInactiveChat(currentMatchId) == activeMatchRef # currentMatchId

\* The channel handler up to its await: a self-sent row and a row of a chat
\* that is not the active one are ignored; any other row is appended and its
\* is_read update issued.
ChatEvent ==
  /\ chatEvents # <<>>
  /\ chatEvents' = Tail(chatEvents)
  /\ LET i == Head(chatEvents) IN
     IF IsSelfSent(i) \/ IsInactiveChat(chan)
     THEN UNCHANGED <<messages, chatMarks>>
     ELSE /\ messages' = Append(messages, Entry(i))
          /\ chatMarks' = chatMarks \cup {[id |-> i, conv |-> chan, st |-> "sent"]}
  /\ UNCHANGED <<currentUser, friendsSt, friends, unread, selectedFriend,
                 messageInput, isSending, isLoadingMessages, activeMatchRef, loads,
                 chan, channels, sends, sendSeq, loadSeq, matchId>>
  /\ UNCHANGED <<matchVars, unreadVars, route, dbVars>>
  /\ UNCHANGED <<selectedSkill, pollCalls, errorToasts>>
  /\ UNCHANGED <<lateEvents, blockVars>>

\* The handler of a removed channel receives a row that was on its way (or
\* the row is lost: deliver = FALSE).  currentMatchId is the match of that
\* channel; on an unmounted page setMessages does nothing, the is_read update
\* is issued all the same.
LateChatEvent(e, deliver) ==
  /\ e \in lateEvents
  /\ lateEvents' = lateEvents \ {e}
  /\ IF ~deliver \/ IsSelfSent(e.id) \/ IsInactiveChat(e.conv)
     THEN UNCHANGED <<messages, chatMarks>>
     ELSE /\ messages' = IF Mounted THEN Append(messages, Entry(e.id)) ELSE messages
          /\ chatMarks' = chatMarks \cup {[id |-> e.id, conv |-> e.conv, st |-> "sent"]}
  /\ UNCHANGED <<currentUser, friendsSt, friends, unread, selectedFriend,
                 messageInput, isSending, isLoadingMessages, activeMatchRef, loads,
                 chan, channels, chatEvents, sends, sendSeq, loadSeq, matchId>>
  /\ UNCHANGED <<matchVars, unreadVars, route, dbVars>>
  /\ UNCHANGED <<selectedSkill, pollCalls, errorToasts>>
  /\ UNCHANGED blockVars

\* The backend executes update messages set is_read = true where id = m.id.
ChatMarkExec(m) ==
  /\ m \in chatMarks /\ m.st = "sent"
  /\ dbMessages' = [dbMessages EXCEPT ![m.id].isRead = TRUE]
  /\ chatMarks' = (chatMarks \ {m}) \cup {[m EXCEPT !.st = "done"]}
  /\ UNCHANGED <<currentUser, friendsSt, friends, unread, selectedFriend, messages,
                 messageInput, isSending, isLoadingMessages, activeMatchRef, loads,
                 chan, channels, chatEvents, sends, sendSeq, loadSeq, matchId>>
  /\ UNCHANGED <<matchVars, unreadVars, route, dbFriends, now>>
  /\ UNCHANGED <<selectedSkill, pollCalls, errorToasts>>
  /\ UNCHANGED <<lateEvents, blockVars>>

\* The channel handler after its await: the unread value of the handler's
\* conversation is cleared.
ChatMarkResume(m) ==
  /\ m \in chatMarks /\ m.st = "done"
  /\ chatMarks' = chatMarks \ {m}
  /\ unread' = IF Mounted THEN [unread EXCEPT ![m.conv] = 0] ELSE unread
  /\ UNCHANGED <<currentUser, friendsSt, friends, selectedFriend, messages,
                 messageInput, isSending, isLoadingMessages, activeMatchRef, loads,
                 chan, channels, chatEvents, sends, sendSeq, loadSeq, matchId>>
  /\ UNCHANGED <<matchVars, unreadVars, route, dbVars>>
  /\ UNCHANGED <<selectedSkill, pollCalls, errorToasts>>
  /\ UNCHANGED <<lateEvents, blockVars>>

\* The clock advances.
Tick ==
  /\ now < MaxTime
  /\ now' = now + 1
  /\ UNCHANGED <<matchVars, unreadVars, chatVars, route, dbMessages, dbFriends>>
  /\ UNCHANGED <<selectedSkill, pollCalls, errorToasts>>
  /\ UNCHANGED <<lateEvents, blockVars>>

\* ------------------------------ Dashboard, matches-table variant (Dashboard.tsx)
\* The poll path of this variant does not look for the request row: it reads
\* the newest row of the matches table that names the user.  The variant keeps
\* no request id; r below is the request whose search the effect run serves.

\* The id of the Match the backend creates for request r: after the ids of
\* the matches that exist at the start.
NewMatchId(r) == Cardinality(Convs) + r

\* The matches that name the user: those of the start that are the user's, and
\* those created for a request of the user.
UserMatches == {m \in dbMatches : m \in MyConvs \/ m > Cardinality(Convs)}

\* .or(user_a.eq / user_b.eq).order("matched_at", desc).limit(1): the newest one.
NewestMatch == CHOOSE m \in UserMatches : \A k \in UserMatches : k <= m

\* handleRequestMatch of the variant up to its await; the poll effect
\* (dependencies isMatching and user) starts in the render that follows and
\* calls pollForMatch at once.
RequestMatchV ==
  /\ route = "dashboard"
  /\ ~isMatching
  /\ IF ~SkillValid(selectedSkill)
     THEN /\ errorToasts["Validation"] < MaxInvalid
          /\ errorToasts' = [errorToasts EXCEPT !["Validation"] = @ + 1]
          /\ UNCHANGED <<reqSeq, isMatching, matchFound, insSt, intervalReq,
                         matchCheckCount, pollCalls>>
     ELSE /\ user
          /\ reqSeq < MaxRequests
          /\ reqSeq' = reqSeq + 1
          /\ isMatching' = TRUE
          /\ matchFound' = Null
          /\ insSt' = [insSt EXCEPT ![reqSeq + 1] = "sent"]
          /\ intervalReq' = reqSeq + 1
          /\ matchCheckCount' = [matchCheckCount EXCEPT ![reqSeq + 1] = 1]
          /\ pollCalls' = pollCalls \cup
                            {[req |-> reqSeq + 1, n |-> 1, pc |-> "query", mid |-> Null]}
          /\ UNCHANGED errorToasts
  /\ UNCHANGED <<user, currentRequestId, closureMatchFound, ticks, lookups, toasts,
                 dbRequests, matchEvents>>
  /\ UNCHANGED <<unreadVars, chatVars, route, dbVars, selectedSkill>>
  /\ UNCHANGED <<lateEvents, blockVars>>

\* handleRequestMatch of the variant after its await: an error notifies and
\* clears the flag (the effect's cleanup clears the interval).
InsertReturnV(r) ==
  /\ insSt[r] \in {"ok", "err"}
  /\ insSt' = [insSt EXCEPT ![r] = IF insSt[r] = "err" THEN "failed" ELSE "done"]
  /\ IF SubmitFailed(insSt[r])
     THEN /\ isMatching' = FALSE
          /\ errorToasts' = [errorToasts EXCEPT !["Submission"] = @ + 1]
          /\ intervalReq' = IF isMatching THEN Null ELSE intervalReq
     ELSE UNCHANGED <<isMatching, errorToasts, intervalReq>>
  /\ UNCHANGED <<user, matchFound, currentRequestId, reqSeq, matchCheckCount,
                 closureMatchFound, ticks, lookups, toasts, dbRequests, matchEvents>>
  /\ UNCHANGED <<unreadVars, chatVars, route, dbVars, selectedSkill, pollCalls>>
  /\ UNCHANGED <<lateEvents, blockVars>>

\* The backend pairs request r: the request row is deleted and a new Match
\* naming the user is inserted and streamed.
BackendMatchNewV(r) ==
  /\ r \in dbRequests
  /\ dbRequests' = dbRequests \ {r}
  /\ dbMatches' = dbMatches \cup {NewMatchId(r)}
  /\ matchEvents' = matchEvents \cup {[mid |-> r, mine |-> TRUE]}
  /\ UNCHANGED <<user, isMatching, matchFound, currentRequestId, reqSeq, insSt,
                 intervalReq, matchCheckCount, closureMatchFound, ticks, lookups, toasts>>
  /\ UNCHANGED <<unreadVars, chatVars, route, dbVars>>
  /\ UNCHANGED <<selectedSkill, pollCalls, errorToasts>>
  /\ UNCHANGED <<lateEvents, blocks, blockedToasts, dbBlocked>>

\* The matches handler of the variant after its lookup: it sets the outcome
\* payload and notifies, and leaves the flag as it is.
PushResumeV(m, found) ==
  /\ m \in lookups
  /\ lookups' = lookups \ {m}
  /\ IF found
     THEN /\ matchFound' = NewMatchId(m)
          /\ toasts' = Toast(toasts, m, "MatchFound")
     ELSE UNCHANGED <<matchFound, toasts>>
  /\ UNCHANGED <<user, isMatching, currentRequestId, reqSeq, insSt, intervalReq,
                 matchCheckCount, closureMatchFound, ticks, dbRequests, matchEvents>>
  /\ UNCHANGED <<unreadVars, chatVars, route, dbVars>>
  /\ UNCHANGED <<selectedSkill, pollCalls, errorToasts>>
  /\ UNCHANGED <<lateEvents, blockVars>>

\* setInterval fires: pollForMatch of the variant up to its await.
PollTickV ==
  /\ intervalReq # Null
  /\ matchCheckCount[intervalReq] < MaxTicks
  /\ Cardinality(pollCalls) < MaxInFlight
  /\ matchCheckCount' = [matchCheckCount EXCEPT ![intervalReq] = @ + 1]
  /\ pollCalls' = pollCalls \cup
                    {[req |-> intervalReq, n |-> matchCheckCount[intervalReq] + 1,
                      pc |-> "query", mid |-> Null]}
  /\ UNCHANGED <<user, isMatching, matchFound, currentRequestId, reqSeq, insSt,
                 intervalReq, closureMatchFound, ticks, lookups, toasts, dbRequests,
                 matchEvents>>
  /\ UNCHANGED <<unreadVars, chatVars, route, dbVars>>
  /\ UNCHANGED <<selectedSkill, errorToasts>>
  /\ UNCHANGED <<lateEvents, blockVars>>

\* The backend answers the matches query: an error, no row, or the newest
\* Match naming the user.
PollQueryExecV(c) ==
  /\ c \in pollCalls /\ c.pc = "query"
  /\ \/ pollCalls' = (pollCalls \ {c}) \cup {[c EXCEPT !.pc = "qerr"]}
     \/ pollCalls' = (pollCalls \ {c}) \cup
                       {IF UserMatches = {} THEN [c EXCEPT !.pc = "none"]
                        ELSE [c EXCEPT !.pc = "found", !.mid = NewestMatch]}
  /\ UNCHANGED <<matchVars, unreadVars, chatVars, route, dbVars>>
  /\ UNCHANGED <<selectedSkill, errorToasts>>
  /\ UNCHANGED <<lateEvents, blockVars>>

\* if (matchCheckCount >= maxChecks) { setIsMatching(false); toast } of the
\* variant, for the call c; the effect's cleanup clears the interval.
TimeoutV(c) ==
  IF matchCheckCount[c.req] >= maxChecks
  THEN /\ isMatching' = FALSE
       /\ toasts' = Toast(toasts, c.req, "NoUsersOnline")
       /\ intervalReq' = IF isMatching THEN Null ELSE intervalReq
  ELSE UNCHANGED <<isMatching, toasts, intervalReq>>

\* pollForMatch of the variant after the matches query: an error returns, a
\* row issues the username lookup, no row goes on to the timeout test.
PollQueryResumeV(c) ==
  /\ c \in pollCalls /\ c.pc \in {"qerr", "none", "found"}
  /\ IF c.pc = "found"
     THEN /\ pollCalls' = (pollCalls \ {c}) \cup {[c EXCEPT !.pc = "lookup"]}
          /\ UNCHANGED <<isMatching, toasts, intervalReq>>
     ELSE /\ pollCalls' = pollCalls \ {c}
          /\ IF c.pc = "none" THEN TimeoutV(c)
             ELSE UNCHANGED <<isMatching, toasts, intervalReq>>
  /\ UNCHANGED <<user, matchFound, currentRequestId, reqSeq, insSt, matchCheckCount,
                 closureMatchFound, ticks, lookups, dbRequests, matchEvents>>
  /\ UNCHANGED <<unreadVars, chatVars, route, dbVars>>
  /\ UNCHANGED <<selectedSkill, errorToasts>>
  /\ UNCHANGED <<lateEvents, blockVars>>

\* pollForMatch of the variant after the username lookup: with a username it
\* sets the outcome payload to the row it read, clears the flag and notifies;
\* without one it goes on to the timeout test.
PollLookupResumeV(c, found) ==
  /\ c \in pollCalls /\ c.pc = "lookup"
  /\ pollCalls' = pollCalls \ {c}
  /\ IF found
     THEN /\ matchFound' = c.mid
          /\ isMatching' = FALSE
          /\ toasts' = Toast(toasts, c.req, "MatchFound")
          /\ intervalReq' = IF isMatching THEN Null ELSE intervalReq
     ELSE /\ TimeoutV(c)
          /\ UNCHANGED matchFound
  /\ UNCHANGED <<user, currentRequestId, reqSeq, insSt, matchCheckCount,
                 closureMatchFound, ticks, lookups, dbRequests, matchEvents>>
  /\ UNCHANGED <<unreadVars, chatVars, route, dbVars>>
  /\ UNCHANGED <<selectedSkill, errorToasts>>
  /\ UNCHANGED <<lateEvents, blockVars>>

\* The matches-table variant of the Dashboard.
NextVariant ==
  \/ FetchUserDone
  \/ \E sk \in BOOLEAN : SelectSkill(sk)
  \/ RequestMatchV
  \/ \E r \in ReqIds : InsertExec(r)
  \/ \E r \in ReqIds : InsertReturnV(r)
  \/ \E r \in ReqIds : BackendMatchNewV(r)
  \/ \E e \in matchEvents : PushEvent(e)
  \/ \E m \in lookups, found \in BOOLEAN : PushResumeV(m, found)
  \/ PollTickV
  \/ \E c \in pollCalls : PollQueryExecV(c)
  \/ \E c \in pollCalls : PollQueryResumeV(c)
  \/ \E c \in pollCalls, found \in BOOLEAN : PollLookupResumeV(c, found)

\* --------------------------------------------------------------------- Next
NextMatch ==
  \/ FetchUserDone
  \/ \E sk \in BOOLEAN : SelectSkill(sk)
  \/ RequestMatch
  \/ \E r \in ReqIds : InsertExec(r)
  \/ \E r \in ReqIds : InsertReturn(r)
  \/ \E r \in ReqIds : BackendMatchNew(r)
  \/ \E r \in ReqIds : BackendMatchExisting(r)
  \/ BackendMatchOthers
  \/ \E e \in matchEvents : PushEvent(e)
  \/ \E m \in lookups, found \in BOOLEAN : PushResume(m, found)
  \/ PollTick
  \/ \E r \in ReqIds : PollQueryExec(r)
  \/ \E r \in ReqIds, st \in TickSt : PollResume(r, st)

NextUnread ==
  \/ FetchUserDone
  \/ UnreadFetchExec
  \/ UnreadFetchResume
  \/ \E c \in MyConvs, s \in Senders : MessageInserted(c, s)
  \/ \E s \in Senders : GlobalEvent(s)
  \/ InboxButtonClick
  \/ \E c \in MyConvs : InboxMarkRead(c)
  \/ DashboardMount

\* The user navigates between conversations and never types.
NextNav ==
  \/ LoadUserDone
  \/ LoadFriendsDone
  \/ \E m \in {Null} \cup Convs : RouteChange(m)
  \/ \E c \in Convs : ClickFriend(c)
  \/ LeaveInbox
  \/ \E l \in loads : LoadAccessExec(l)
  \/ \E l \in loads : LoadAccessResume(l)
  \/ \E l \in loads : LoadNameResume(l)
  \/ \E l \in loads : LoadFetchExec(l)
  \/ \E l \in loads : LoadFetchResume(l)
  \/ \E l \in loads : LoadMarkExec(l)
  \/ \E l \in loads : LoadMarkResume(l)
  \/ \E c \in MyConvs : RemoteSend(c)
  \/ ChatEvent
  \/ \E e \in lateEvents, deliver \in BOOLEAN : LateChatEvent(e, deliver)
  \/ \E m \in chatMarks : ChatMarkExec(m)
  \/ \E m \in chatMarks : ChatMarkResume(m)

\* The user stays on the conversation the page was opened with, and types.
NextChat ==
  \/ LoadUserDone
  \/ LoadFriendsDone
  \/ \E l \in loads : LoadAccessExec(l)
  \/ \E l \in loads : LoadAccessResume(l)
  \/ \E l \in loads : LoadNameResume(l)
  \/ \E l \in loads : LoadFetchExec(l)
  \/ \E l \in loads : LoadFetchResume(l)
  \/ \E l \in loads : LoadMarkExec(l)
  \/ \E l \in loads : LoadMarkResume(l)
  \/ \E t \in Inputs : TypeMessage(t)
  \/ SendMessage
  \/ \E x \in sends : SendExec(x)
  \/ \E x \in sends : SendResume(x)
  \/ \E c \in MyConvs : RemoteSend(c)
  \/ ChatEvent
  \/ \E e \in lateEvents, deliver \in BOOLEAN : LateChatEvent(e, deliver)
  \/ \E m \in chatMarks : ChatMarkExec(m)
  \/ \E m \in chatMarks : ChatMarkResume(m)
  \/ Tick
  \/ LeaveInbox

\* The user navigates and blocks friends; nobody sends a message.
NextBlock ==
  \/ LoadUserDone
  \/ LoadFriendsDone
  \/ \E m \in {Null} \cup Convs : RouteChange(m)
  \/ \E c \in Convs : ClickFriend(c)
  \/ \E l \in loads : LoadAccessExec(l)
  \/ \E l \in loads : LoadAccessResume(l)
  \/ \E l \in loads : LoadNameResume(l)
  \/ \E l \in loads : LoadFetchExec(l)
  \/ \E l \in loads : LoadFetchResume(l)
  \/ \E l \in loads : LoadMarkExec(l)
  \/ \E l \in loads : LoadMarkResume(l)
  \/ \E c \in Convs : BlockClick(c)
  \/ \E b \in blocks, out \in BlockOutcomes : BlockExec(b, out)
  \/ \E b \in blocks : BlockResume(b)

\* The earlier Inbox variant: the user navigates between conversations; the
\* access fallback is the one that looks the friends row up by match id alone.
NextEarlier ==
  \/ LoadUserDone
  \/ LoadFriendsDone
  \/ \E m \in {Null} \cup Convs : RouteChange(m)
  \/ \E c \in Convs : ClickFriend(c)
  \/ LeaveInbox
  \/ \E l \in loads : LoadAccessExecEarlier(l)
  \/ \E l \in loads : LoadAccessResume(l)
  \/ \E l \in loads : LoadNameResume(l)
  \/ \E l \in loads : LoadFetchExec(l)
  \/ \E l \in loads : LoadFetchResume(l)
  \/ \E l \in loads : LoadMarkExec(l)
  \/ \E l \in loads : LoadMarkResume(l)

Next == NextMatch \/ NextUnread \/ NextNav \/ NextChat \/ NextBlock \/ NextEarlier
          \/ NextVariant

Spec == InitDashboard /\ [][Next]_vars
SpecNav == InitInbox /\ [][NextNav]_vars
SpecChat == InitChat /\ [][NextChat]_vars
SpecBlock == InitInbox /\ [][NextBlock]_vars
SpecEarlier == InitInbox /\ [][NextEarlier]_vars
SpecVariant == InitDashboard /\ [][NextVariant]_vars
SpecMatch == InitDashboard /\ [][NextMatch]_vars
SpecUnread == InitDashboard /\ [][NextUnread]_vars

\* Every call the backend has received is answered and its continuation runs,
\* and the interval timer keeps firing while it is set.
FairMatch ==
  /\ WF_vars(\E r \in ReqIds : InsertExec(r))
  /\ WF_vars(\E r \in ReqIds : InsertReturn(r))
  /\ WF_vars(\E r \in ReqIds : PollQueryExec(r))
  /\ WF_vars(\E r \in ReqIds, st \in TickSt : PollResume(r, st))
  /\ WF_vars(PollTick)

SpecMatchFair == SpecMatch /\ FairMatch

\* =================================================================== claims

\* Nothing of request r is still under way: its insert returned a row, the
\* backend has consumed the row, and no poll tick, interval, push event or
\* name lookup of it is pending.
Settled(r) ==
  /\ insSt[r] = "done"
  /\ r \notin dbRequests
  /\ intervalReq # r
  /\ \A st \in TickSt : ticks[r][st] = 0
  /\ r \notin lookups
  /\ [mid |-> r, mine |-> TRUE] \notin matchEvents

\* C1: for every interleaving of push-path and poll-path events, exactly one
\* terminal notification (Match Found! / Existing Connection Found / No users
\* online) is emitted per submitted match request: never two, and never zero
\* once everything of the request has run.
C1_ExactlyOneNotification ==
  \A r \in ReqIds :
    /\ ToastCount(r) <= 1
    /\ Settled(r) => ToastCount(r) = 1

\* C7: once the push path has set the Matched outcome for a request, every
\* poll tick of that request that completes afterwards (also one whose query
\* was already awaited) emits no notification of its own.
C7_PollSilentAfterMatched ==
  [][\A r \in ReqIds, st \in TickSt :
       (matchFound = r /\ PollResume(r, st)) => toasts' = toasts]_vars

\* C10: a poll tick that finds the request gone while the push path has not
\* produced Matched moves the coordinator to Superseded: the flag is false, the
\* request id and the outcome payload are cleared, exactly one Existing
\* Connection Found notification (not an error toast) is added, and the poll
\* interval is stopped.
C10_SupersededTransition ==
  [][\A r \in ReqIds :
       (matchFound = Null /\ PollResume(r, "gone")) =>
         /\ isMatching' = FALSE
         /\ currentRequestId' = Null
         /\ matchFound' = Null
         /\ toasts' = Toast(toasts, r, "ExistingConnection")
         /\ intervalReq' = Null]_vars

\* C10 witness: a request ended Superseded, by the poll path alone.
C10_Witness ==
  \E r \in ReqIds :
    /\ toasts[r]["ExistingConnection"] = 1
    /\ toasts[r]["MatchFound"] = 0
    /\ ~isMatching /\ currentRequestId = Null /\ matchFound = Null
    /\ intervalReq = Null

\* C5: once fetchUnreadTotal has initialised it, the badge equals the number
\* of unread messages of other senders in the backend.  The equality is taken
\* where no streamed insert is still on its way to the handler.
C5_BadgeEqualsUnread ==
  (route = "dashboard" /\ unreadFetch.st = "done"
     /\ \A s \in Senders : globalEvents[s] = 0)
  => unreadTotal = UnreadInDb

\* C6: the badge is never negative.
C6_BadgeNonNegative == unreadTotal >= 0

\* C6 witness: the badge was initialised by the count and incremented by the
\* stream.
C6_Witness ==
  route = "dashboard" /\ unreadFetch.st = "done" /\ unreadTotal >= 2

C9_StaleFetchDiscarded ==
  [][\A l \in loads :
       LoadFetchResume(l) =>
         /\ (l.cancelled \/ activeMatchRef # l.match) => messages' = messages
         /\ messages' # messages =>
              (~l.cancelled /\ activeMatchRef = l.match /\ messages' = l.data)]_vars

\* C9 witness: the result of a messages query, with rows the list does not
\* show, is about to resume in a load that was superseded.
C9_Witness ==
  \E l \in loads :
    /\ Mounted
    /\ l.pc = "fetched" /\ l.data # <<>> /\ l.data # messages
    /\ l.cancelled /\ activeMatchRef # l.match

\* C8: a load that was superseded (its effect was cleaned up by a route change
\* or by the unmount) changes nothing when one of its awaited steps resumes:
\* not the selected conversation, the message list, the loading flag, the
\* unread values, nor the route.
C8_SupersededLoadIsNoOp ==
  [][\A l \in loads :
       (l.cancelled /\ (LoadAccessResume(l) \/ LoadNameResume(l)
                          \/ LoadFetchResume(l) \/ LoadMarkResume(l)))
       => UNCHANGED <<selectedFriend, messages, isLoadingMessages, unread, route>>]_vars

\* The entries of the visible list made for the k-th send.
EntriesOf(k) == Cardinality({i \in 1..Len(messages) : messages[i].key = k})

\* C3: a message of the user that was persisted in the active conversation has
\* exactly one entry in the visible list, once its insert event has been
\* handled and no load and no send is under way.
C3_ExactlyOneEntry ==
  \A i \in 1..Len(dbMessages) :
    (/\ Mounted /\ loads = {} /\ sends = {}
     /\ dbMessages[i].sender = "me"
     /\ selectedFriend = dbMessages[i].conv /\ activeMatchRef = dbMessages[i].conv
     /\ \A n \in 1..Len(chatEvents) : chatEvents[n] # i)
    => EntriesOf(dbMessages[i].key) = 1

\* C4: the visible list is ordered by send timestamp, entries of equal
\* timestamp by ascending id.
C4_MessagesOrdered ==
  \A i, j \in 1..Len(messages) :
    i < j =>
      \/ messages[i].sentAt < messages[j].sentAt
      \/ messages[i].sentAt = messages[j].sentAt /\ messages[i].id <= messages[j].id

\* C11: for a request whose row the backend has left in place (so no push
\* event was made for it and every answered tick found it existing),
\* Exhausted is reached on the tick that brings the counter to
\* ceil(MATCH_TIMEOUT / POLL_INTERVAL) = 3 and on no other: 'No users online'
\* is emitted at most once, and not before the counter is 3.  (The client has
\* no operation that deletes a request row.)
C11_ExhaustedOnLastTick ==
  \A r \in ReqIds :
    r \in dbRequests =>
      /\ toasts[r]["NoUsersOnline"] <= 1
      /\ toasts[r]["NoUsersOnline"] = 1 => matchCheckCount[r] = 3

\* Request r has ended Superseded or Exhausted.
EndedUnmatched(r) ==
  toasts[r]["ExistingConnection"] + toasts[r]["NoUsersOnline"] >= 1

\* C12: once a request has ended Superseded or Exhausted, no push event and no
\* poll completion of that request changes the outcome payload, the flag, the
\* request id or the notifications; the flag is only ever set by a new
\* submission, which clears the outcome payload and the request id.
C12_TerminalIsFinal ==
  [][/\ \A r \in ReqIds :
          (/\ EndedUnmatched(r)
           /\ \/ \E found \in BOOLEAN : PushResume(r, found)
              \/ \E st \in TickSt : PollResume(r, st))
          => UNCHANGED <<matchFound, isMatching, currentRequestId, toasts>>
     /\ (~isMatching /\ isMatching') =>
          (RequestMatch /\ matchFound' = Null /\ currentRequestId' = Null)]_vars

C14_FailedSubmissionIdle ==
  /\ [][\A r \in ReqIds :
         (InsertReturn(r) /\ insSt[r] = "err") =>
           (~isMatching' /\ currentRequestId' = Null /\ intervalReq' = Null)]_vars
  /\ [](\A r \in ReqIds :
         insSt[r] \in {"err", "failed"} =>
           (matchCheckCount[r] = 0 /\ \A st \in TickSt : ticks[r][st] = 0))

\* C15: a tick that finds the request existing while the counter is below
\* maxChecks changes nothing of the coordinator and notifies nothing; the push
\* event naming the user sets Matched; and a request that was polled (its
\* interval fired again, so an earlier tick found it existing and went on) and
\* then Matched has exactly one notification.
C15_PollThenPushOnce ==
  /\ [][\A r \in ReqIds :
         /\ (PollResume(r, "exists") /\ matchCheckCount[r] < maxChecks) =>
              UNCHANGED <<isMatching, matchFound, currentRequestId, toasts, intervalReq>>
         /\ PushResume(r, TRUE) =>
              (matchFound' = r /\ ~isMatching'
               /\ toasts' = Toast(toasts, r, "MatchFound"))]_vars
  /\ [](\A r \in ReqIds :
         (matchCheckCount[r] >= 3 /\ toasts[r]["MatchFound"] >= 1) => ToastCount(r) = 1)

\* C16: a message event handed to the handler of the subscription of
\* conversation X while activeMatchRef is not X is ignored: nothing is
\* appended to the message list, no is_read update is issued, and no unread
\* value and no row changes.
C16_InactiveEventIgnored ==
  [][/\ \A e \in lateEvents :
          (LateChatEvent(e, TRUE) /\ activeMatchRef # e.conv)
            => UNCHANGED <<messages, chatMarks, unread, unreadTotal, dbMessages>>
     /\ (ChatEvent /\ activeMatchRef # chan)
            => UNCHANGED <<messages, chatMarks, unread, unreadTotal, dbMessages>>]_vars

\* A row of the other participant is on its way to the handler of a removed
\* channel while the page shows another conversation.
C16_Witness ==
  /\ Mounted
  /\ \E e \in lateEvents :
        /\ ~IsSelfSent(e.id)
        /\ activeMatchRef \in MyConvs \ {e.conv}
        /\ chan = activeMatchRef

\* new is old without its entry of id tmp, every other entry kept in place.
RemovedOnly(old, new, tmp) ==
  LET hits == {i \in 1..Len(old) : old[i].id = tmp} IN
  /\ Cardinality(hits) <= 1
  /\ IF hits = {}
     THEN new = old
     ELSE LET p == CHOOSE i \in hits : TRUE IN
          new = SubSeq(old, 1, p - 1) \o SubSeq(old, p + 1, Len(old))

\* C17: when the insert of an optimistic send fails, the continuation removes
\* exactly the entry with that send's temporary id from the visible list,
\* restores the input to the submitted text, re-enables sending and emits one
\* "Failed to send message" notification.
C17_SendFailureRollsBack ==
  [][\A x \in sends :
       (SendResume(x) /\ x.st = "err" /\ Mounted) =>
          /\ RemovedOnly(messages, messages', x.tmp)
          /\ messageInput' = x.content
          /\ ~isSending'
          /\ errorToasts'["Send"] = errorToasts["Send"] + 1]_vars

\* A send has failed while the list held a received message: the received
\* entry is still listed, the temporary one is gone, the input holds the text.
C17_Witness ==
  /\ Mounted
  /\ errorToasts["Send"] = 1
  /\ messageInput = "text"
  /\ ~isSending
  /\ sends = {}
  /\ Len(messages) = 1 /\ messages[1].sender = "other"

\* C18: when the backend rejects a step of the block sequence, the
\* continuation of that step ends the sequence with a "Failed to delete &
\* block user" notification: the friend stays in the list, the selection, the
\* messages and the route are kept, and "Blocked" is not notified.
C18_RejectedBlockKeepsConversation ==
  [][\A b \in blocks :
       (BlockResume(b) /\ b.st \in {"rejected", "thrown"}) =>
          /\ \A b2 \in blocks' : b2.conv # b.conv
          /\ errorToasts'["Block"] = errorToasts["Block"] + 1
          /\ UNCHANGED <<friends, selectedFriend, messages, matchId, blockedToasts>>]_vars

\* The block sequence of conversation c was carried out by the backend.
BlockCarriedOut(c) == c \in dbBlocked /\ c \notin dbFriends /\ c \notin dbMatches

\* C19: when the last step of a block of M returns and every step was carried
\* out, M leaves the friends list and, if M is the selected conversation, the
\* selection and the messages are cleared and the route is /inbox; a load of
\* M started afterwards goes through the friends query, finds no row and ends
\* on the access-denied page.
C19_BlockedConversationGone ==
  [][/\ \A b \in blocks :
          (BlockResume(b) /\ b.step = Len(BlockSteps) /\ b.st = "ok"
             /\ BlockCarriedOut(b.conv) /\ Mounted) =>
             /\ b.conv \notin friends'
             /\ blockedToasts'[b.conv] = blockedToasts[b.conv] + 1
             /\ selectedFriend = b.conv =>
                  (selectedFriend' = Null /\ messages' = <<>> /\ matchId' = Null)
     /\ \A c \in MyConvs :
          (BlockCarriedOut(c) /\ blockedToasts[c] > 0) =>
             /\ RouteChange(c) =>
                  \A l \in loads' : (l.match = c /\ ~l.cancelled) => l.pc = "access"
             /\ ~ClickFriend(c)
             /\ \A l \in loads :
                  (l.match = c /\ l.pc = "access" /\ LoadAccessExec(l))
                     => loads' = Step(l, "norow")
             /\ \A l \in loads :
                  (l.match = c /\ l.pc = "norow" /\ LoadAccessResume(l))
                     => route' = "denied"]_vars

\* C20: the handler of the global messages channel adds exactly one to the
\* badge for a row of another author and leaves it as it is for a row of the
\* current user; the row's conversation is not looked at.
C20_GlobalEventCounts ==
  [][\A s \in Senders :
       GlobalEvent(s) =>
          /\ s # "me" => unreadTotal' = unreadTotal + 1
          /\ s = "me" => unreadTotal' = unreadTotal]_vars

\* A row of another author and then a row of the user were streamed and
\* handled while the count query is still awaited: the badge counts one.
C20_Witness ==
  /\ route = "dashboard" /\ user
  /\ unreadTotal = 1
  /\ unreadFetch.st = "sent"
  /\ \A s \in Senders : globalEvents[s] = 0
  /\ Len(dbMessages) = 2
  /\ dbMessages[1].sender # "me" /\ dbMessages[2].sender = "me"

\* C21: the channel handler, on a row of the active conversation written by
\* another author, issues the is_read update of exactly that row and takes
\* one off the global unread counter; on a row of the current user it does
\* neither.
C21_LiveEventMarksAndDecrements ==
  [][(ChatEvent /\ chatEvents # <<>>) =>
       LET i == Head(chatEvents) IN
       /\ (~IsSelfSent(i) /\ activeMatchRef = chan) =>
             /\ chatMarks' = chatMarks \cup {[id |-> i, conv |-> chan, st |-> "sent"]}
             /\ unreadTotal' = unreadTotal - 1
       /\ IsSelfSent(i) => UNCHANGED <<chatMarks, unreadTotal>>]_vars

\* C22: a load of conversation M whose fetch was not stale issues one bulk
\* update; the update sets the read flag of every row of M written by another
\* author and changes no row of the current user and no row of another
\* conversation; after it the sidebar unread value of M, and of M only, is 0.
C22_BulkMarkReadFrame ==
  [][\A l \in loads :
       /\ (LoadFetchResume(l) /\ l.pc = "fetched" /\ ~l.cancelled
             /\ activeMatchRef = l.match) =>
            /\ Cardinality({k \in loads' : k.match = l.match /\ k.pc = "mark"}) = 1
            /\ dbMessages' = dbMessages
       /\ LoadMarkExec(l) =>
            /\ Len(dbMessages') = Len(dbMessages)
            /\ \A i \in 1..Len(dbMessages) :
                 dbMessages'[i] =
                   IF dbMessages[i].conv = l.match /\ dbMessages[i].sender # "me"
                   THEN [dbMessages[i] EXCEPT !.isRead = TRUE]
                   ELSE dbMessages[i]
       /\ (LoadMarkResume(l) /\ Mounted) =>
            /\ unread'[l.match] = 0
            /\ \A c \in Convs \ {l.match} : unread'[c] = unread[c]
            /\ dbMessages' = dbMessages]_vars

\* The bulk update of a load has been carried out: a row of the other
\* participant in its conversation is read while its stream event has not
\* been handled yet, and a row of the current user exists.
C22_Witness ==
  /\ Mounted
  /\ \E l \in loads :
       /\ l.pc = "marked"
       /\ \E i \in 1..Len(dbMessages) :
            /\ dbMessages[i].conv = l.match
            /\ dbMessages[i].sender # "me"
            /\ dbMessages[i].isRead
            /\ chatEvents # <<>> /\ Head(chatEvents) = i
       /\ \E j \in 1..Len(dbMessages) : dbMessages[j].sender = "me"

\* C23: the inbox button of the Dashboard sets the unread counter to zero,
\* whatever it was.
C23_OpenInboxResetsBadge ==
  [][InboxButtonClick => (unreadTotal' = 0 /\ route' = "inbox")]_vars

\* The inbox was opened while unread messages of other authors exist: the
\* counter is zero all the same.
C23_Witness ==
  /\ route = "inbox"
  /\ unreadTotal = 0
  /\ UnreadInDb = MaxMsgs

\* C24: a message row, once stored, keeps its sender, conversation, timestamp
\* and content and is never removed; its read flag only goes from false to
\* true.
C24_MessagesImmutableButRead ==
  [][/\ Len(dbMessages') >= Len(dbMessages)
     /\ \A i \in 1..Len(dbMessages) :
          /\ [dbMessages'[i] EXCEPT !.isRead = dbMessages[i].isRead] = dbMessages[i]
          /\ dbMessages[i].isRead => dbMessages'[i].isRead]_vars

\* A row of the other participant has been marked read by the page while a
\* row of the user and the list entries of both exist.
C24_Witness ==
  /\ Mounted
  /\ Len(messages) = 2
  /\ \E i, j \in 1..Len(dbMessages) :
       /\ dbMessages[i].sender # "me" /\ dbMessages[i].isRead
       /\ dbMessages[j].sender = "me"

\* The load of conversation c started by the current render has not finished:
\* its access check, its fetch or its bulk update is still to be applied.
LoadPending(c) == \E l \in loads : l.match = c /\ ~l.cancelled

\* C25: the channel of a conversation is subscribed only once the access
\* check, the message load and the bulk mark-as-read of that conversation are
\* through, and the channel handler appends no row to the message list while
\* the load of its conversation is still pending.
C25_StreamAfterLoad ==
  /\ [](chan # Null => ~LoadPending(chan))
  /\ [][(ChatEvent /\ messages' # messages) => ~LoadPending(chan)]_vars

\* C26: at most one messages channel is subscribed; it is the channel of the
\* conversation of the current route, and none is subscribed once the Inbox
\* page is unmounted.
C26_OneScopedSubscription ==
  /\ Cardinality(channels) <= 1
  /\ \A c \in channels : Mounted /\ c = matchId
  /\ ~Mounted => channels = {}

\* The page has switched from conversation 1 to conversation 2: the load of
\* conversation 1 is still suspended, and only the channel of 2 is subscribed.
C26_Witness ==
  /\ Mounted
  /\ matchId = 2
  /\ channels = {2}
  /\ \E l \in loads : l.match = 1 /\ l.cancelled

\* C27: the continuation of a poll tick whose existence query failed leaves
\* the search flag false and the request id cleared, and emits a notification.
C27_PollErrorNotified ==
  [][\A r \in ReqIds :
       (PollResume(r, "err") /\ ticks[r]["err"] > 0) =>
          /\ isMatching' = FALSE
          /\ currentRequestId' = Null
          /\ toasts' # toasts \/ errorToasts' # errorToasts]_vars

\* C28: the matches handler, given a row that names neither the user as user_a
\* nor as user_b, changes no coordinator state, issues no lookup and emits no
\* notification; given a row that names the user, it ends with the outcome
\* payload set to that match (the other user's name and the match id).
C28_MatchEventFrame ==
  [][/\ \A e \in matchEvents :
          (PushEvent(e) /\ ~e.mine) =>
             UNCHANGED <<matchFound, isMatching, currentRequestId, lookups, toasts,
                         errorToasts>>
     /\ \A m \in lookups :
          (\E found \in BOOLEAN : PushResume(m, found)) => matchFound' = m]_vars

\* C29: in the earlier Inbox variant a match id of two other users is never
\* the selected conversation, and its load never gets past the friends query:
\* no name lookup, no messages query whose result becomes the message list,
\* no bulk update.
C29_FallbackConstrained ==
  /\ selectedFriend \notin ForeignConvs
  /\ \A l \in loads : l.match \in ForeignConvs => l.pc \in {"access", "norow"}

\* C30: the message list never holds two entries with the same message id.
C30_NoDuplicateIds ==
  \A i, j \in 1..Len(messages) : i # j => messages[i].id # messages[j].id

\* C31: 'Existing Connection Found' is notified for request r only if no new
\* Match was created for r.  A new Match of r leaves its event on the way to
\* the matches handler, or its username lookup awaited, or 'Match Found!'
\* notified (or the lookup has failed): none of the first three is the case
\* when the poll path reports r as superseded.
C31_SupersededOnlyWithoutNewMatch ==
  [][\A r \in ReqIds :
       toasts'[r]["ExistingConnection"] > toasts[r]["ExistingConnection"] =>
          /\ [mid |-> r, mine |-> TRUE] \notin matchEvents
          /\ r \notin lookups
          /\ toasts[r]["MatchFound"] = 0]_vars

\* C32: an existence query is issued for request r only in a state in which
\* the search flag is true, r is the retained request id and the insert of r
\* has returned; the interval runs only while the flag is true and its
\* request id is the retained one.
C32_TicksOnlyWhileSearching ==
  /\ [](intervalReq # Null => isMatching /\ currentRequestId = intervalReq)
  /\ [][\A r \in ReqIds :
          ticks'[r]["sent"] > ticks[r]["sent"] =>
             /\ isMatching'
             /\ currentRequestId' = r
             /\ insSt'[r] = "done"]_vars

\* Request 2 is being polled (one of its ticks is awaited) after the search of
\* request 1 has ended with a notification.
C32_Witness ==
  /\ intervalReq = 2
  /\ ticks[2]["sent"] > 0
  /\ matchCheckCount[2] >= 2
  /\ ToastCount(1) > 0

\* C33: whenever the search flag is true it eventually becomes false, given
\* that every issued call returns and the interval keeps firing.
C33_SearchEnds == isMatching ~> ~isMatching

\* The search of request 1 was ended by the tick that reached the maximum
\* count with the request still stored.
C33_Witness ==
  /\ ~isMatching
  /\ 1 \in dbRequests
  /\ matchCheckCount[1] >= maxChecks
  /\ toasts[1]["NoUsersOnline"] = 1

\* C34: 'Match Found!' is notified, and the outcome payload set, for request r
\* only while the search flag is true and no other request id is retained: a
\* Match naming the user that arrives while the coordinator is idle sets
\* nothing and notifies nothing.
C34_MatchedOnlyWhileSearching ==
  [][\A r \in ReqIds :
       (toasts'[r]["MatchFound"] > toasts[r]["MatchFound"] \/ (matchFound' = r /\ matchFound # r)) =>
          /\ isMatching
          /\ currentRequestId \in {r, Null}]_vars

\* C35: in the matches-table variant, the Match the poll path reports for a
\* request is never one of the matches that existed before the request was
\* submitted.
C35_PollReportsNewMatchOnly ==
  [][\A c \in pollCalls :
       PollLookupResumeV(c, TRUE) => matchFound' \notin MyConvs]_vars

\* C36: an entry of the list that stands for a message of the user whose
\* insert was carried out stays in the list while its conversation stays the
\* selected one and the page mounted.
C36_SentMessageStays ==
  [][\A k \in 1..MaxMsgs :
       (/\ \E i \in 1..Len(messages) : messages[i].key = k
        /\ \E i \in 1..Len(dbMessages) :
              dbMessages[i].sender = "me" /\ dbMessages[i].key = k
        /\ Mounted' /\ selectedFriend' = selectedFriend)
       => \E i \in 1..Len(messages') : messages'[i].key = k]_vars

\* C37: while a conversation is selected and the loading flag is false, every
\* entry of the message list is a message of the selected conversation; and
\* the continuation of a load that is no longer the current one does not
\* clear the loading flag while the load of the active conversation is
\* still awaited.
C37_ListOfSelectedConversation ==
  /\ []((Mounted /\ selectedFriend # Null /\ ~isLoadingMessages) =>
          \A i \in 1..Len(messages) : messages[i].conv = selectedFriend)
  /\ [][\A l \in loads :
          (/\ LoadFetchResume(l) \/ LoadAccessResume(l) \/ LoadMarkResume(l)
           /\ l.cancelled
           /\ \E k \in loads' : ~k.cancelled /\ k.match = activeMatchRef)
          => isLoadingMessages' = isLoadingMessages]_vars

\* C38: when the last step of a block returns and the blocked conversation is
\* not the selected one, only its entry leaves the friends list: the
\* selection, the message list, the route and its parameter and the entries
\* of the other conversations are as before.
C38_BlockOfInactiveFrame ==
  [][\A b \in blocks :
       (/\ BlockResume(b) /\ b.step = Len(BlockSteps) /\ ~BlockStepFailed(b.st)
        /\ Mounted /\ selectedFriend # b.conv)
       => /\ friends' = friends \ {b.conv}
          /\ UNCHANGED <<selectedFriend, messages, route, matchId, unread>>]_vars

====
